---- MODULE Spec2Model ----
(***************************************************************************)
(* A model of the image-composition core of pythonlodz.org (package pyldz): *)
(*   face_centering.py   the face locator (square crop around one face)     *)
(*   image_generator.py  text metrics, avatar cache, featured-image facade  *)
(* Each subsystem has its own specification over the shared variables; the  *)
(* variables of the other subsystems stay at their initial values.          *)
(***************************************************************************)
EXTENDS Integers, Sequences, FiniteSets, TLC

VARIABLES
    fImg,       \* face locator: the image size [w, h] of the call
    fFaces,     \* face locator: what the detection backend returns for the image
    fBox,       \* face locator: a face box handed to _compute_square_crop directly
    fOut,       \* face locator: outcome of the last operation
    fCalls,     \* face locator: number of backend queries made
    wText,      \* word wrap: the text, a sequence of characters (0 is a blank)
    wMaxW,      \* word wrap: max_w
    wOut,       \* word wrap: the lines returned, or NotRun
    aFontOk,    \* autoscale: whether the font file at font_path can be loaded
    aUnits,     \* autoscale: width of the text per unit of font size
    aStart,     \* autoscale: start
    aMaxWidth,  \* autoscale: max_width
    aSize,      \* autoscale: the loop variable size
    aIter,      \* autoscale: loop iterations made
    aPc,        \* autoscale: "idle", "loop" or "done"
    aOut,       \* autoscale: the font returned
    cache,      \* avatar cache directory: [raw, proc], one file per speaker id
    avLast,     \* avatar cache: record of the last request served, or NotRun
    avPrev,     \* avatar cache: record of the request before it, or NotRun
    fs,         \* output location: [dir, file]
    gLast,      \* facade: record of the last generate_featured_image call
    gPrev,      \* facade: record of the call before it, or NotRun
    assets,     \* facade: the asset files present in assets_dir
    avWork,     \* avatar cache: per speaker id, locator passes and decodes so far
    avRequests, \* avatar cache: number of requests counted in avWork
    bEntry,     \* batch: the entry point running, or "none"
    bList,      \* batch: the enabled meetups in order, each with its speakers
    bPos,       \* batch: index of the meetup the loop handles next
    bLog,       \* batch: outcome of the generation attempted for each meetup so far
    bPc,        \* batch: "idle", "loop", "returned" or "raised"
    rSpeaker,   \* race: the speaker whose avatar both workers request
    rPc,        \* race: the statement of _avatar each worker is at
    rLoc,       \* race: the local variables original and img of each worker
    hDir,       \* hugo: the files of each meetup directory that exists
    hLast,      \* hugo: record of the last create_featured_image call, or NotRun
    pIn,        \* composition: what one step of the composition is given
    pOut        \* composition: what that step worked out, or NotRun

faceVars == <<fImg, fFaces, fBox, fOut, fCalls>>

wrapVars == <<wText, wMaxW, wOut>>

autoVars == <<aFontOk, aUnits, aStart, aMaxWidth, aSize, aIter, aPc, aOut>>

avVars == <<cache, avLast, avPrev>>

genVars == <<fs, gLast, gPrev, assets>>

seqVars == <<avWork, avRequests, bEntry, bList, bPos, bLog, bPc, rSpeaker, rPc, rLoc,
             hDir, hLast, pIn, pOut>>

vars == <<faceVars, wrapVars, autoVars, avVars, genVars, seqVars>>

(***************************************************************************)
(* Generic helpers                                                          *)
(***************************************************************************)
Max2(a, b) == IF a >= b THEN a ELSE b

Min2(a, b) == IF a <= b THEN a ELSE b

\* Python's floor division for a non-negative divisor (// in the source).
FloorDiv(a, b) == IF a >= 0 THEN a \div b ELSE -((-a + b - 1) \div b)

(***************************************************************************)
(* Face locator (face_centering.py)                                         *)
(***************************************************************************)
\* Largest image side explored.
MaxImgDim == 3

\* Most extra faces the backend reports beyond the first.
MaxExtraFaces == 2

\* _Box(x, y, w, h)
_Box(x, y, w, h) == [x |-> x, y |-> y, w |-> w, h |-> h]

\* _Box.center
center(box) == <<box.x + FloorDiv(box.w, 2), box.y + FloorDiv(box.h, 2)>>

\* A plausible slip: the clamped right/bottom edges are returned as they are,
\* without the final re-squaring.
compute_square_crop_noresquare(box, img_w, img_h) ==
    LET c    == center(box)
        side == Max2(1, 2 * Max2(box.w, box.h))
        half == FloorDiv(side, 2)
        left == Max2(0, c[1] - half)
        top  == Max2(0, c[2] - half)
    IN  <<left, top, Min2(img_w, left + side), Min2(img_h, top + side)>>

\* _compute_square_crop(box, img_w, img_h) -> (left, top, right, bottom)
_compute_square_crop(box, img_w, img_h) ==
    LET c      == center(box)
        side0  == Max2(1, 2 * Max2(box.w, box.h))
        half   == FloorDiv(side0, 2)
        left   == Max2(0, c[1] - half)
        top    == Max2(0, c[2] - half)
        right  == Min2(img_w, left + side0)
        bottom == Min2(img_h, top + side0)
        width  == right - left
        height == bottom - top
        side   == Min2(width, height)
    IN  <<left, top, left + side, top + side>>

\* Outcomes of the face locator.
NoOutcome == [kind |-> "none"]

FaceDetectionError(msg) == [kind |-> "FaceDetectionError", msg |-> msg]

Cropped(crop) == [kind |-> "cropped", crop |-> crop]

\* A plausible slip: several faces are accepted and the first one is used.
detect_and_center_square_firstface(faces, img_w, img_h) ==
    IF Len(faces) = 0 THEN FaceDetectionError("No face detected")
    ELSE IF faces[1].w <= 0 \/ faces[1].h <= 0
         THEN FaceDetectionError("Invalid face box")
    ELSE Cropped(_compute_square_crop(faces[1], img_w, img_h))

\* detect_and_center_square(image), given the faces the backend found in it.
detect_and_center_square(faces, img_w, img_h) ==
    IF Len(faces) = 0 THEN FaceDetectionError("No face detected")
    ELSE IF Len(faces) > 1 THEN FaceDetectionError("More than one face detected")
    ELSE IF faces[1].w <= 0 \/ faces[1].h <= 0
         THEN FaceDetectionError("Invalid face box")
    ELSE Cropped(_compute_square_crop(faces[1], img_w, img_h))

ImgSizes == {[w |-> w, h |-> h] : w \in 1..MaxImgDim, h \in 1..MaxImgDim}

\* Any box with positive width and height, inside, across or outside the image.
AnyBoxes == {_Box(x, y, w, h) : x \in -1..MaxImgDim, y \in -1..MaxImgDim,
                                w \in 1..MaxImgDim, h \in 1..MaxImgDim}

\* Boxes a detector reports for an image: in source-image pixel coordinates,
\* inside the image; or degenerate (non-positive width or height).
InImageBoxes(img) ==
    {b \in [x : 0..img.w, y : 0..img.h, w : 1..img.w, h : 1..img.h] :
        b.x + b.w <= img.w /\ b.y + b.h <= img.h}

DegenerateBoxes == {_Box(0, 0, w, h) : w \in -1..1, h \in -1..1} \
                   {_Box(0, 0, 1, 1)}

DetectedBoxes(img) == InImageBoxes(img) \cup DegenerateBoxes

\* The further faces of a multi-face result (only their number is read).
ExtraFaces == {[i \in 1..n |-> _Box(0, 0, 1, 1)] : n \in 0..MaxExtraFaces}

FaceLists(img) == {<< >>} \cup {<<b>> \o e : b \in DetectedBoxes(img), e \in ExtraFaces}

FaceIdle ==
    /\ fImg = [w |-> 1, h |-> 1]
    /\ fBox = _Box(0, 0, 1, 1)
    /\ fFaces = << >>
    /\ fOut = NoOutcome
    /\ fCalls = 0

FaceInit ==
    /\ fImg \in ImgSizes
    /\ \/ fBox \in AnyBoxes /\ fFaces = << >>
       \/ fBox = _Box(0, 0, 1, 1) /\ fFaces \in FaceLists(fImg)
    /\ fOut = NoOutcome
    /\ fCalls = 0

\* A direct call of _compute_square_crop on fBox.
ComputeSquareCrop ==
    /\ fOut = NoOutcome
    /\ fOut' = [kind |-> "crop", box |-> fBox,
                crop |-> _compute_square_crop(fBox, fImg.w, fImg.h)]
    /\ UNCHANGED <<fImg, fFaces, fBox, fCalls, wrapVars, autoVars, avVars, genVars, seqVars>>

\* A call of detect_and_center_square: one backend query, then the decision.
DetectAndCenterSquare ==
    /\ fOut = NoOutcome
    /\ fCalls' = fCalls + 1
    /\ fOut' = detect_and_center_square(fFaces, fImg.w, fImg.h)
    /\ UNCHANGED <<fImg, fFaces, fBox, wrapVars, autoVars, avVars, genVars, seqVars>>

FaceNext == ComputeSquareCrop \/ DetectAndCenterSquare

(***************************************************************************)
(* Text metrics (image_generator.py): fonts and measuring                   *)
(***************************************************************************)
\* Width of a blank in the font used for wrapping.
SpaceWidth == 1

\* Widest character of a word.
MaxCharW == 2

\* Longest text wrapped, in characters.
MaxTextLen == 6

\* Largest max_w handed to the wrap.
MaxWrapW == 6

\* Size of the built-in default font (its glyphs do not scale with the size
\* asked for).
DefaultFontSize == 10

\* The floor of _autoscale_font.
MinFontSize == 40

\* The decrement of _autoscale_font.
SizeStep == 2

\* start ranges over MinFontSize - StartSpan .. MinFontSize + StartSpan.
StartSpan == 6

\* Largest width per unit of font size of an autoscaled text.
MaxUnits == 3

\* Largest max_width handed to the autoscale.
MaxAutoW == 140

NotRun == [kind |-> "notrun"]

TrueTypeFont(size) == [kind |-> "truetype", size |-> size]

DefaultFont == [kind |-> "default", size |-> DefaultFontSize]

\* A plausible slip: no fallback, the font is taken to load at the size asked.
load_font_nofallback(fontOk, size) == TrueTypeFont(size)

\* _load_font(path, size): the font at the size asked for, or the built-in
\* default font when the file cannot be loaded (OSError).
_load_font(fontOk, size) == IF fontOk THEN TrueTypeFont(size) ELSE DefaultFont

\* draw.textbbox((0, 0), text, font=f)[2] for a text of the given width per
\* unit of size: glyph widths scale with the font's own size.
TextWidthAt(units, font) == units * font.size

\* Width of one character of a wrapped text (0 is the blank).
CharWidth(c) == IF c = 0 THEN SpaceWidth ELSE c

\* draw.textbbox((0, 0), s, font=font)[2] for a string of characters.
RECURSIVE TextWidth(_)
TextWidth(s) == IF s = << >> THEN 0 ELSE CharWidth(Head(s)) + TextWidth(Tail(s))

\* text.split(): the maximal runs of non-blank characters, in order.
RECURSIVE split_from(_, _, _)
split_from(text, cur, words) ==
    IF text = << >>
    THEN IF cur = << >> THEN words ELSE Append(words, cur)
    ELSE IF Head(text) = 0
         THEN split_from(Tail(text), << >>,
                         IF cur = << >> THEN words ELSE Append(words, cur))
         ELSE split_from(Tail(text), Append(cur, Head(text)), words)

split(text) == split_from(text, << >>, << >>)

\* " ".join(words)
RECURSIVE join(_)
join(words) ==
    IF words = << >> THEN << >>
    ELSE IF Len(words) = 1 THEN words[1]
    ELSE words[1] \o <<0>> \o join(Tail(words))

\* A plausible slip: the line is measured before the next word is added.
RECURSIVE wrap_words_stale(_, _, _, _)
wrap_words_stale(words, cur, lines, max_w) ==
    IF words = << >>
    THEN IF cur # << >> THEN Append(lines, join(cur)) ELSE lines
    ELSE LET w == Head(words)
         IN  IF TextWidth(join(cur)) <= max_w
             THEN wrap_words_stale(Tail(words), Append(cur, w), lines, max_w)
             ELSE wrap_words_stale(Tail(words), <<w>>,
                                   IF cur # << >> THEN Append(lines, join(cur))
                                   ELSE lines, max_w)

\* The loop of _wrap_unbounded over the remaining words.
RECURSIVE wrap_words(_, _, _, _)
wrap_words(words, cur, lines, max_w) ==
    IF words = << >>
    THEN IF cur # << >> THEN Append(lines, join(cur)) ELSE lines
    ELSE LET w    == Head(words)
             test == join(Append(cur, w))
         IN  IF TextWidth(test) <= max_w
             THEN wrap_words(Tail(words), Append(cur, w), lines, max_w)
             ELSE wrap_words(Tail(words), <<w>>,
                             IF cur # << >> THEN Append(lines, join(cur))
                             ELSE lines, max_w)

\* _wrap_unbounded(draw, text, font, max_w)
_wrap_unbounded(text, max_w) == wrap_words(split(text), << >>, << >>, max_w)

Chars == 0..MaxCharW

Texts == UNION {[1..n -> Chars] : n \in 0..MaxTextLen}

WrapIdle ==
    /\ wText = << >>
    /\ wMaxW = 0
    /\ wOut = NotRun

WrapInit ==
    /\ wText \in Texts
    /\ wMaxW \in 0..MaxWrapW
    /\ wOut = NotRun

\* A call of _wrap_unbounded.
WrapUnbounded ==
    /\ wOut = NotRun
    /\ wOut' = [kind |-> "lines", lines |-> _wrap_unbounded(wText, wMaxW)]
    /\ UNCHANGED <<wText, wMaxW, faceVars, autoVars, avVars, genVars, seqVars>>

WrapNext == WrapUnbounded

(***************************************************************************)
(* Text metrics: _autoscale_font, one loop iteration per step                *)
(***************************************************************************)
\* A plausible slip: the width test lets a text one pixel too wide through.
autoscale_iter_loose(fontOk, units, size, max_width) ==
    LET f == _load_font(fontOk, size)
        w == TextWidthAt(units, f)
    IN  IF w <= max_width + 1
        THEN [done |-> TRUE, font |-> f, size |-> size]
        ELSE [done |-> FALSE, font |-> f, size |-> size - SizeStep]

\* A plausible slip: the size goes down by one per pass.
autoscale_iter_unit_step(fontOk, units, size, max_width) ==
    LET f == _load_font(fontOk, size)
        w == TextWidthAt(units, f)
    IN  IF w <= max_width
        THEN [done |-> TRUE, font |-> f, size |-> size]
        ELSE [done |-> FALSE, font |-> f, size |-> size - 1]

\* One iteration of the while loop of _autoscale_font (size >= 40 holds).
autoscale_iter(fontOk, units, size, max_width) ==
    LET f == _load_font(fontOk, size)
        w == TextWidthAt(units, f)
    IN  IF w <= max_width
        THEN [done |-> TRUE, font |-> f, size |-> size]
        ELSE [done |-> FALSE, font |-> f, size |-> size - SizeStep]

AutoIdle ==
    /\ aFontOk = TRUE
    /\ aUnits = 0
    /\ aStart = MinFontSize
    /\ aMaxWidth = 0
    /\ aSize = MinFontSize
    /\ aIter = 0
    /\ aPc = "idle"
    /\ aOut = NotRun

AutoInit ==
    /\ aFontOk \in BOOLEAN
    /\ aUnits \in 0..MaxUnits
    /\ aStart \in (MinFontSize - StartSpan)..(MinFontSize + StartSpan)
    /\ aMaxWidth \in 0..MaxAutoW
    /\ aSize = MinFontSize
    /\ aIter = 0
    /\ aPc = "idle"
    /\ aOut = NotRun

\* Entry of _autoscale_font: size = start.
AutoscaleEnter ==
    /\ aPc = "idle"
    /\ aSize' = aStart
    /\ aPc' = "loop"
    /\ UNCHANGED <<aFontOk, aUnits, aStart, aMaxWidth, aIter, aOut, faceVars, wrapVars,
                 avVars, genVars, seqVars>>

\* One pass through the body of "while size >= 40".
AutoscaleIterate ==
    /\ aPc = "loop"
    /\ aSize >= MinFontSize
    /\ LET r == autoscale_iter(aFontOk, aUnits, aSize, aMaxWidth)
       IN  /\ aIter' = aIter + 1
           /\ aSize' = r.size
           /\ IF r.done
              THEN aOut' = r.font /\ aPc' = "done"
              ELSE aOut' = aOut /\ aPc' = "loop"
    /\ UNCHANGED <<aFontOk, aUnits, aStart, aMaxWidth, faceVars, wrapVars,
                 avVars, genVars, seqVars>>

\* The loop condition fails: return self._load_font(font_path, 40).
AutoscaleFloor ==
    /\ aPc = "loop"
    /\ aSize < MinFontSize
    /\ aOut' = _load_font(aFontOk, MinFontSize)
    /\ aPc' = "done"
    /\ UNCHANGED <<aFontOk, aUnits, aStart, aMaxWidth, aSize, aIter, faceVars, wrapVars,
                 avVars, genVars, seqVars>>

AutoNext == AutoscaleEnter \/ AutoscaleIterate \/ AutoscaleFloor

(***************************************************************************)
(* Avatar cache (image_generator.py, _avatar)                               *)
(* An image is the term of the operations that produced it: two images are  *)
(* equal exactly when they come from the same pixels by the same steps.     *)
(***************************************************************************)
\* Speaker identifiers in use.
SpeakerIds == {"ann", "bob"}

\* Largest side of a requested avatar size.
MaxAvatarSide == 2

\* Height of the avatar photos explored (their width is MaxImgDim).
PhotoH == 2

NoImage == [op |-> "none"]

\* A decoded picture: its mode, its size and the faces the backend finds in it.
SourceImage(mode, w, h, faces) ==
    [op |-> "source", mode |-> mode, w |-> w, h |-> h, faces |-> faces]

\* Image.convert(mode)
convert(img, mode) == [img EXCEPT !.mode = mode]

\* Image.crop(box): the full frame gives the same pixels back.
crop(img, box) ==
    IF box = <<0, 0, img.w, img.h>> THEN img
    ELSE [op |-> "crop", mode |-> img.mode, w |-> box[3] - box[1],
          h |-> box[4] - box[2], of |-> img, box |-> box]

\* Image.resize(size, LANCZOS): the same size gives the same pixels back.
resize(img, size) ==
    IF <<img.w, img.h>> = size THEN img
    ELSE [op |-> "resize", mode |-> img.mode, w |-> size[1], h |-> size[2],
          of |-> img]

\* Files: absent, or what img.save(path, "PNG") wrote.
Absent == [fmt |-> "absent"]

PngFile(img) == [fmt |-> "PNG", img |-> img]

\* A file that img.save began to write and did not finish.
PartialFile == [fmt |-> "partial"]

\* Image.open(path).convert("RGBA") of a PNG file.
OpenRGBA(file) == convert(file.img, "RGBA")

\* Speaker.avatar.content: the bytes of a picture, or bytes that are no image.
ImageBytes(img) == [fmt |-> "image", img |-> img]

GarbageBytes == [fmt |-> "garbage"]

Speaker(id, content) == [id |-> id, avatar |-> content]

\* Exceptions: type, message and chained cause (__cause__).
NoCause == [type |-> "none"]

Raised(type, msg) == [type |-> type, msg |-> msg, cause |-> NoCause]

\* raise ImageGenerationError(f"{what} {who}: {e}") from e
ImageGenerationError(what, who, e) ==
    [type |-> "ImageGenerationError", msg |-> <<what, who, e.msg>>, cause |-> e]

\* Image.open(BytesIO(content)) on bytes that are no image.
UnidentifiedImageError == Raised("UnidentifiedImageError", "cannot identify image file")

\* The detection backend fails with an error that is not a FaceDetectionError.
BackendError == Raised("ValueError", "detection backend failed")

\* What a request did: the cache it leaves, what it returned or raised, how
\* often it queried the face locator and decoded the speaker's bytes.
AvatarOutcome(c, kind, img, exc, located, decoded, fde, original) ==
    [cache |-> c, kind |-> kind, img |-> img, exc |-> exc, located |-> located,
     decoded |-> decoded, fde |-> fde, original |-> original]

\* A plausible slip: a failed load cleans up by emptying the cache directory.
avatar_failed_clearing(c, speaker, e, located, decoded) ==
    AvatarOutcome([raw |-> [i \in SpeakerIds |-> Absent],
                   proc |-> [i \in SpeakerIds |-> Absent]], "raised", NoImage,
                  ImageGenerationError("Failed to load avatar for", speaker.id, e),
                  located, decoded, FALSE, NoImage)

\* except Exception as e: raise ImageGenerationError("Failed to load avatar ...")
_avatar_failed(c, speaker, e, located, decoded) ==
    AvatarOutcome(c, "raised", NoImage,
                  ImageGenerationError("Failed to load avatar for", speaker.id, e),
                  located, decoded, FALSE, NoImage)

\* A plausible slip: a cached processed file is centred and saved again.
avatar_processed_recentred(c, speaker, size) ==
    LET img == OpenRGBA(c.proc[speaker.id])
        d   == detect_and_center_square(<<_Box(0, 0, 1, 1)>>, img.w, img.h)
        out == crop(img, d.crop)
    IN  AvatarOutcome([c EXCEPT !.proc[speaker.id] = PngFile(out)], "image",
                      resize(out, size), NoCause, 1, 0, FALSE, NoImage)

\* A plausible slip: a cache hit saves the resized image over the processed file.
avatar_processed_resaved(c, speaker, size) ==
    AvatarOutcome([c EXCEPT !.proc[speaker.id] =
                        PngFile(resize(OpenRGBA(c.proc[speaker.id]), size))],
                  "image", resize(OpenRGBA(c.proc[speaker.id]), size),
                  NoCause, 0, 0, FALSE, NoImage)

\* A plausible slip: the avatar bytes are decoded before the cache is looked at.
avatar_processed_decoding(c, speaker, size) ==
    IF speaker.avatar.fmt # "image"
    THEN _avatar_failed(c, speaker, UnidentifiedImageError, 0, 1)
    ELSE AvatarOutcome(c, "image", resize(OpenRGBA(c.proc[speaker.id]), size),
                       NoCause, 0, 1, FALSE, NoImage)

\* The processed file exists: open it and resize.
_avatar_processed(c, speaker, size) ==
    AvatarOutcome(c, "image", resize(OpenRGBA(c.proc[speaker.id]), size),
                  NoCause, 0, 0, FALSE, NoImage)

\* A plausible slip: the fallback returns the original without saving it.
avatar_fallback_unsaved(c, speaker, original) ==
    [cache |-> c, img |-> original]

\* except FaceDetectionError: original.save(processed, "PNG"); img = original
_avatar_fallback(c, speaker, original) ==
    [cache |-> [c EXCEPT !.proc[speaker.id] = PngFile(original)], img |-> original]

\* A plausible slip: the centred image is returned without being saved as the
\* processed file.
avatar_centered_unsaved(c, speaker, size, original, decoded) ==
    LET done(d) ==
            AvatarOutcome(c, "image",
                          resize(IF d.kind = "cropped" THEN crop(original, d.crop)
                                 ELSE original, size),
                          NoCause, 1, decoded, d.kind # "cropped", original)
    IN  done(detect_and_center_square(original.faces, original.w, original.h))

\* The inner try: centre on the face and save, or fall back to the original.
_avatar_centered(c, speaker, size, original, decoded) ==
    LET saved(centered) ==
            [cache |-> [c EXCEPT !.proc[speaker.id] = PngFile(centered)],
             img |-> centered]
        done(d, r) ==
            AvatarOutcome(r.cache, "image", resize(r.img, size), NoCause, 1,
                          decoded, d.kind # "cropped", original)
        located(d) ==
            done(d, IF d.kind = "cropped" THEN saved(crop(original, d.crop))
                    ELSE _avatar_fallback(c, speaker, original))
    IN  located(detect_and_center_square(original.faces, original.w, original.h))

\* A plausible slip: no raw.exists() test, the speaker's bytes are decoded and
\* saved as the raw original whenever the processed file is missing.
avatar_rewriting_raw(c, speaker, size, fault) ==
    IF c.proc[speaker.id] # Absent THEN _avatar_processed(c, speaker, size)
    ELSE IF speaker.avatar.fmt # "image"
    THEN _avatar_failed(c, speaker, UnidentifiedImageError, 0, 1)
    ELSE IF fault = "locator"
    THEN _avatar_failed([c EXCEPT !.raw[speaker.id] =
                                PngFile(convert(speaker.avatar.img, "RGBA"))],
                        speaker, BackendError, 1, 1)
    ELSE _avatar_centered([c EXCEPT !.raw[speaker.id] =
                                PngFile(convert(speaker.avatar.img, "RGBA"))],
                          speaker, size, convert(speaker.avatar.img, "RGBA"), 1)

\* _avatar(speaker, size); fault names what the environment makes fail in it.
_avatar(c, speaker, size, fault) ==
    LET id == speaker.id
    IN  IF c.proc[id] # Absent THEN _avatar_processed(c, speaker, size)
        ELSE IF c.raw[id] = Absent /\ speaker.avatar.fmt # "image"
        THEN _avatar_failed(c, speaker, UnidentifiedImageError, 0, 1)
        ELSE LET fromRaw  == c.raw[id] # Absent
                 original == IF fromRaw THEN OpenRGBA(c.raw[id])
                             ELSE convert(speaker.avatar.img, "RGBA")
                 c2       == IF fromRaw THEN c
                             ELSE [c EXCEPT !.raw[id] = PngFile(original)]
                 decoded  == IF fromRaw THEN 0 ELSE 1
             IN  IF fault = "locator"
                 THEN _avatar_failed(c2, speaker, BackendError, 1, decoded)
                 ELSE _avatar_centered(c2, speaker, size, original, decoded)

EmptyCache == [raw |-> [i \in SpeakerIds |-> Absent],
               proc |-> [i \in SpeakerIds |-> Absent]]

\* Faces the backend may report for an avatar photo.
PhotoFaceLists ==
    {<< >>, <<_Box(0, 0, 0, 1)>>, <<_Box(0, 0, 1, 1), _Box(1, 0, 1, 1)>>} \cup
    {<<_Box(x, 0, 1, 1)>> : x \in 0..(MaxImgDim - 1)}

AvatarContents ==
    {GarbageBytes} \cup
    {ImageBytes(SourceImage(mode, MaxImgDim, PhotoH, fl)) :
        mode \in {"RGB", "RGBA"}, fl \in PhotoFaceLists}

AvatarSizes == {<<s, s>> : s \in 1..MaxAvatarSide}

AvatarFaults == {"none", "locator"}

AvatarIdle ==
    /\ cache = EmptyCache
    /\ avLast = NotRun
    /\ avPrev = NotRun

AvatarInit == AvatarIdle

\* One avatar request, start to finish.
Avatar ==
    \E id \in SpeakerIds, content \in AvatarContents, size \in AvatarSizes,
       fault \in AvatarFaults :
        \E r \in {_avatar(cache, Speaker(id, content), size, fault)} :
            /\ cache' = r.cache
            /\ avLast' = [id |-> id, size |-> size,
                          before |-> [raw |-> cache.raw[id], proc |-> cache.proc[id]],
                          kind |-> r.kind, img |-> r.img, exc |-> r.exc,
                          located |-> r.located, decoded |-> r.decoded,
                          fde |-> r.fde, original |-> r.original]
            /\ avPrev' = IF avLast = NotRun THEN NotRun
                         ELSE [kind |-> avLast.kind, id |-> avLast.id,
                               size |-> avLast.size, img |-> avLast.img,
                               hit |-> avLast.before.proc # Absent]
            /\ UNCHANGED <<faceVars, wrapVars, autoVars, genVars, seqVars>>

AvatarNext == Avatar

\* One avatar request, start to finish, recorded with the speaker object it
\* was made for: the same id may come with other avatar bytes each time.
AvatarForSpeaker ==
    \E id \in SpeakerIds, size \in AvatarSizes,
       content \in {GarbageBytes} \cup
                   {ImageBytes(SourceImage("RGB", MaxImgDim, PhotoH, fl)) :
                         fl \in {<< >>, <<_Box(0, 0, 1, 1)>>}} :
        \E r \in {_avatar(cache, Speaker(id, content), size, "none")} :
            /\ cache' = r.cache
            /\ avLast' = [speaker |-> Speaker(id, content), size |-> size,
                          before |-> cache.proc[id], kind |-> r.kind,
                          img |-> r.img, decoded |-> r.decoded,
                          original |-> r.original]
            /\ avPrev' = IF avLast = NotRun THEN NotRun
                         ELSE [speaker |-> avLast.speaker, size |-> avLast.size,
                               before |-> avLast.before, kind |-> avLast.kind,
                               img |-> avLast.img]
            /\ UNCHANGED <<faceVars, wrapVars, autoVars, genVars, seqVars>>

\* Most avatar requests counted.
MaxRequests == 4

\* One avatar request, start to finish, with the work it did added to the
\* counts of its speaker id: locator passes and decodes begun, and those that
\* came back with a result.
AvatarCounted ==
    /\ avRequests < MaxRequests
    /\ \E id \in SpeakerIds, fault \in AvatarFaults,
          content \in {GarbageBytes} \cup
                      {ImageBytes(SourceImage("RGB", MaxImgDim, PhotoH, fl)) :
                            fl \in {<< >>, <<_Box(0, 0, 1, 1)>>}} :
        \E r \in {_avatar(cache, Speaker(id, content), <<1, 1>>, fault)} :
            /\ cache' = r.cache
            /\ avWork' = [avWork EXCEPT ![id] =
                    [located |-> @.located + r.located,
                     decoded |-> @.decoded + r.decoded,
                     located_ok |-> @.located_ok
                                    + (IF r.kind = "image" THEN r.located ELSE 0),
                     decoded_ok |-> @.decoded_ok
                                    + (IF content.fmt = "image" THEN r.decoded ELSE 0)]]
            /\ avRequests' = avRequests + 1
    /\ UNCHANGED <<faceVars, wrapVars, autoVars, genVars, avLast, avPrev, bEntry,
                   bList, bPos, bLog, bPc, rSpeaker, rPc, rLoc, hDir, hLast,
                   pIn, pOut>>

(***************************************************************************)
(* Avatar cache: two workers in _avatar at once, statement by statement     *)
(***************************************************************************)
\* A worker's local variables.
RaceLocals(original, img, out, exc) ==
    [original |-> original, img |-> img, out |-> out, exc |-> exc]

\* Two worker processes on one empty cache directory are about to request the
\* avatar of the same speaker, whose bytes are a photo.
RaceInit ==
    /\ cache = EmptyCache
    /\ avLast = NotRun
    /\ avPrev = NotRun
    /\ rSpeaker \in {Speaker("ann", ImageBytes(SourceImage("RGB", MaxImgDim, PhotoH, fl))) :
                        fl \in PhotoFaceLists}
    /\ rPc = [w \in {1, 2} |-> "start"]
    /\ rLoc = [w \in {1, 2} |-> RaceLocals(NoImage, NoImage, NoImage, NoCause)]
    /\ avWork = [i \in SpeakerIds |->
                    [located |-> 0, decoded |-> 0, located_ok |-> 0, decoded_ok |-> 0]]
    /\ avRequests = 0
    /\ bEntry = "none" /\ bList = << >> /\ bPos = 1 /\ bLog = << >> /\ bPc = "idle"
    /\ hDir = << >> /\ hLast = NotRun
    /\ pIn = NotRun /\ pOut = NotRun

\* The next statement of _avatar in worker w. img.save(path, "PNG") takes two
\* steps: the file is opened for writing, which leaves it empty, and then its
\* content is written; opening such a file as an image raises OSError. Both
\* workers ask for the size 330 x 330.
AvatarStep(w) ==
    /\ \E id \in {rSpeaker.id} :
        \* if processed.exists():
        \/ /\ rPc[w] = "start"
           /\ rPc' = [rPc EXCEPT ![w] = IF cache.proc[id] # Absent
                                        THEN "open_processed" ELSE "raw_exists"]
           /\ UNCHANGED <<cache, rLoc>>
        \* img = Image.open(processed).convert("RGBA")
        \/ /\ rPc[w] = "open_processed"
           /\ IF cache.proc[id] = PartialFile
              THEN /\ rPc' = [rPc EXCEPT ![w] = "raised"]
                   /\ rLoc' = [rLoc EXCEPT ![w].exc =
                            ImageGenerationError("Failed to load avatar for", id,
                                    Raised("OSError", "image file is truncated"))]
              ELSE /\ rPc' = [rPc EXCEPT ![w] = "resize"]
                   /\ rLoc' = [rLoc EXCEPT ![w].img = OpenRGBA(cache.proc[id])]
           /\ UNCHANGED cache
        \* if raw.exists():
        \/ /\ rPc[w] = "raw_exists"
           /\ rPc' = [rPc EXCEPT ![w] = IF cache.raw[id] # Absent
                                        THEN "open_raw" ELSE "decode"]
           /\ UNCHANGED <<cache, rLoc>>
        \* original = Image.open(raw).convert("RGBA")
        \/ /\ rPc[w] = "open_raw"
           /\ IF cache.raw[id] = PartialFile
              THEN /\ rPc' = [rPc EXCEPT ![w] = "raised"]
                   /\ rLoc' = [rLoc EXCEPT ![w].exc =
                            ImageGenerationError("Failed to load avatar for", id,
                                    Raised("OSError", "image file is truncated"))]
              ELSE /\ rPc' = [rPc EXCEPT ![w] = "locate"]
                   /\ rLoc' = [rLoc EXCEPT ![w].original = OpenRGBA(cache.raw[id])]
           /\ UNCHANGED cache
        \* original = Image.open(BytesIO(speaker.avatar.content)).convert("RGBA")
        \/ /\ rPc[w] = "decode"
           /\ rPc' = [rPc EXCEPT ![w] = "save_raw"]
           /\ rLoc' = [rLoc EXCEPT ![w].original = convert(rSpeaker.avatar.img, "RGBA")]
           /\ UNCHANGED cache
        \* original.save(raw, "PNG"): open for writing
        \/ /\ rPc[w] = "save_raw"
           /\ cache' = [cache EXCEPT !.raw[id] = PartialFile]
           /\ rPc' = [rPc EXCEPT ![w] = "write_raw"]
           /\ UNCHANGED rLoc
        \* original.save(raw, "PNG"): write
        \/ /\ rPc[w] = "write_raw"
           /\ cache' = [cache EXCEPT !.raw[id] = PngFile(rLoc[w].original)]
           /\ rPc' = [rPc EXCEPT ![w] = "locate"]
           /\ UNCHANGED rLoc
        \* centered = detect_and_center_square(original), or the fallback
        \/ /\ rPc[w] = "locate"
           /\ \E d \in {detect_and_center_square(rLoc[w].original.faces,
                                                  rLoc[w].original.w,
                                                  rLoc[w].original.h)} :
                rLoc' = [rLoc EXCEPT ![w].img =
                            IF d.kind = "cropped" THEN crop(rLoc[w].original, d.crop)
                            ELSE rLoc[w].original]
           /\ rPc' = [rPc EXCEPT ![w] = "save_processed"]
           /\ UNCHANGED cache
        \* centered.save(processed, "PNG") / original.save(processed, "PNG"): open
        \/ /\ rPc[w] = "save_processed"
           /\ cache' = [cache EXCEPT !.proc[id] = PartialFile]
           /\ rPc' = [rPc EXCEPT ![w] = "write_processed"]
           /\ UNCHANGED rLoc
        \* ... write
        \/ /\ rPc[w] = "write_processed"
           /\ cache' = [cache EXCEPT !.proc[id] = PngFile(rLoc[w].img)]
           /\ rPc' = [rPc EXCEPT ![w] = "resize"]
           /\ UNCHANGED rLoc
        \* return img.resize(size, Image.Resampling.LANCZOS)
        \/ /\ rPc[w] = "resize"
           /\ rLoc' = [rLoc EXCEPT ![w].out = resize(rLoc[w].img, <<330, 330>>)]
           /\ rPc' = [rPc EXCEPT ![w] = "returned"]
           /\ UNCHANGED cache
    /\ UNCHANGED <<faceVars, wrapVars, autoVars, genVars, avLast, avPrev, avWork,
                   avRequests, bEntry, bList, bPos, bLog, bPc, rSpeaker, hDir, hLast,
                   pIn, pOut>>

(***************************************************************************)
(* Facade: generate_featured_image (image_generator.py)                     *)
(***************************************************************************)
MeetupIds == {"58", "59"}

\* Most talks of a meetup explored.
MaxTalks == 3

Languages == {"pl", "en"}

\* language=None
NoLanguage == "None"

Talk(speaker_id) == [speaker_id |-> speaker_id]

Meetup(meetup_id, talks) == [meetup_id |-> meetup_id, talks |-> talks]

\* Meetup.language: the target language of the event.
MeetupLanguage(meetup) == IF meetup.meetup_id = "59" THEN "en" ELSE "pl"

\* Meetup.is_to_be_announced, has_single_talk, has_two_talks: by talk count.
is_to_be_announced(meetup) == Len(meetup.talks) = 0

has_single_talk(meetup) == Len(meetup.talks) = 1

has_two_talks(meetup) == Len(meetup.talks) = 2

\* A plausible slip: a tag outside the table gets the square canvas.
canvas_unknown_square(aspect) ==
    IF aspect = "4x5" THEN <<1080, 1350>>
    ELSE IF aspect = "16x9" THEN <<1920, 1080>>
    ELSE <<1080, 1080>>

\* _canvas(aspect): the canvas size.
_canvas(aspect) ==
    IF aspect = "4x5" THEN <<1080, 1350>>
    ELSE IF aspect = "1x1" THEN <<1080, 1080>>
    ELSE <<1920, 1080>>

\* _aspect_preset(aspect): the entries the placement of the regions and the
\* speaker section read (date_y_ratio in hundredths).
_aspect_preset(aspect) ==
    IF aspect = "4x5"
    THEN [duo_mode |-> "stack", single_avatar |-> 330, duo_avatar |-> 288,
          safe_margin |-> 72, max_content_width |-> 980, date_y_ratio |-> 21,
          base_y_gap |-> 76]
    ELSE IF aspect = "1x1"
    THEN [duo_mode |-> "stack", single_avatar |-> 330, duo_avatar |-> 288,
          safe_margin |-> 64, max_content_width |-> 980, date_y_ratio |-> 20,
          base_y_gap |-> 72]
    ELSE [duo_mode |-> "columns", single_avatar |-> 330, duo_avatar |-> 280,
          safe_margin |-> 80, max_content_width |-> 1500, date_y_ratio |-> 23,
          base_y_gap |-> 68]

\* The keys of the option table the speaker section reads.
OptionNames == {"duo_mode", "single_avatar", "duo_avatar"}

\* An options mapping: its keys and the value under each key (a field whose
\* key is not in the mapping holds no value: "" or 0).
Options(keys, duo_mode, single_avatar, duo_avatar) ==
    [keys |-> keys \cap OptionNames,
     duo_mode |-> IF "duo_mode" \in keys THEN duo_mode ELSE "",
     single_avatar |-> IF "single_avatar" \in keys THEN single_avatar ELSE 0,
     duo_avatar |-> IF "duo_avatar" \in keys THEN duo_avatar ELSE 0]

\* options=None, and the empty mapping: both are skipped by "if options:".
NoOptions == Options({}, "", 0, 0)

\* A plausible slip: the update runs the other way round, options.update(opt),
\* and the call goes on with the caller's mapping.
merge_options_reversed(preset, options) ==
    [opt |-> preset,
     options |-> Options(OptionNames, preset.duo_mode, preset.single_avatar,
                         preset.duo_avatar)]

\* opt = {... preset values ...}; if options: opt.update(options)
\* The two mappings after the statement: opt, and the caller's options.
merge_options(preset, options) ==
    [opt |-> [duo_mode |-> IF "duo_mode" \in options.keys THEN options.duo_mode
                           ELSE preset.duo_mode,
              single_avatar |-> IF "single_avatar" \in options.keys
                                THEN options.single_avatar
                                ELSE preset.single_avatar,
              duo_avatar |-> IF "duo_avatar" \in options.keys
                             THEN options.duo_avatar ELSE preset.duo_avatar],
     options |-> options]

\* The asset files __init__ names under assets_dir.
AssetNames == {"background_path", "logo_path", "icon_pin", "icon_flag_gb",
               "avatar_mask", "tba_avatar", "font_normal", "font_bold"}

\* How each asset enters the picture, given the set self of asset files that
\* exist: an image asset is composited from its file when the file exists and
\* is otherwise skipped (background, logo, pin, flag) or drawn by the program
\* (circle mask, TBA badge); a font is what _load_font gives for its path.
\* "none": the element is not part of this picture.
assets_drawn(self, language, layout) ==
    [background |-> IF "background_path" \in self THEN "file" ELSE "skipped",
     logo |-> IF "logo_path" \in self THEN "file" ELSE "skipped",
     pin |-> IF "icon_pin" \in self THEN "file" ELSE "skipped",
     flag |-> IF language # "en" THEN "none"
              ELSE IF "icon_flag_gb" \in self THEN "file" ELSE "skipped",
     mask |-> IF layout = "tba" THEN "none"
              ELSE IF "avatar_mask" \in self THEN "file" ELSE "circle",
     badge |-> IF layout # "tba" THEN "none"
               ELSE IF "tba_avatar" \in self THEN "file" ELSE "drawn",
     font_title |-> _load_font("font_bold" \in self, 70),
     font_small |-> _load_font("font_normal" \in self, 30)]

StopIteration == Raised("StopIteration", "")

\* An operation of the named stage fails for a reason outside the program.
EnvError(stage) == Raised("OSError", stage)

\* A plausible slip: next(..., default) with the first speaker of the list,
\* or a placeholder, as the default.
find_speaker_or_default(speakers, speaker_id) ==
    LET hits == {i \in 1..Len(speakers) : speakers[i].id = speaker_id}
    IN  IF hits # {}
        THEN [kind |-> "found",
              sp |-> speakers[CHOOSE i \in hits : \A j \in hits : i <= j]]
        ELSE [kind |-> "found",
              sp |-> IF Len(speakers) > 0 THEN speakers[1]
                     ELSE Speaker(speaker_id, GarbageBytes)]

\* _find_speaker: next(s for s in speakers if s.id == speaker_id)
_find_speaker(speakers, speaker_id) ==
    LET hits == {i \in 1..Len(speakers) : speakers[i].id = speaker_id}
    IN  IF hits = {} THEN [kind |-> "raised", exc |-> StopIteration]
        ELSE [kind |-> "found",
              sp |-> speakers[CHOOSE i \in hits : \A j \in hits : i <= j]]

\* Outcome of the speaker section: the cache it leaves, the layout drawn with
\* its avatars, or the exception that leaves it, the exception first raised
\* and the stage that raised it.
SectionOk(c, layout, avatars) ==
    [kind |-> "ok", exc |-> NoCause, root |-> NoCause, stage |-> "none",
     cache |-> c, layout |-> layout, avatars |-> avatars]

SectionRaised(c, stage, e, root) ==
    [kind |-> "raised", exc |-> e, root |-> root, stage |-> stage,
     cache |-> c, layout |-> "none", avatars |-> << >>]

\* _layout_tba
_layout_tba(c, fault) ==
    IF fault = "layout"
    THEN SectionRaised(c, "layout", EnvError("layout"), EnvError("layout"))
    ELSE SectionOk(c, "tba", << >>)

\* _layout_single: the avatar, then the texts.
_layout_single(c, sp, opt, fault) ==
    LET drawn(a) ==
            IF a.kind = "raised"
            THEN SectionRaised(a.cache, "avatar", a.exc, a.exc.cause)
            ELSE IF fault = "layout"
            THEN SectionRaised(a.cache, "layout", EnvError("layout"),
                               EnvError("layout"))
            ELSE SectionOk(a.cache, "single", <<a.img>>)
    IN  drawn(_avatar(c, sp, <<opt.single_avatar, opt.single_avatar>>, fault))

\* Both two-talk layouts: first avatar and texts, second avatar and texts.
layout_duo(mode, c, sp1, sp2, opt, fault) ==
    LET size == <<opt.duo_avatar, opt.duo_avatar>>
        second(a1, a2) ==
            IF a2.kind = "raised"
            THEN SectionRaised(a2.cache, "avatar", a2.exc, a2.exc.cause)
            ELSE IF fault = "layout"
            THEN SectionRaised(a2.cache, "layout", EnvError("layout"),
                               EnvError("layout"))
            ELSE SectionOk(a2.cache, mode, <<a1.img, a2.img>>)
        first(a1) ==
            IF a1.kind = "raised"
            THEN SectionRaised(a1.cache, "avatar", a1.exc, a1.exc.cause)
            ELSE second(a1, _avatar(a1.cache, sp2, size, fault))
    IN  first(_avatar(c, sp1, size, fault))

_layout_duo_columns(c, sp1, sp2, opt, fault) ==
    layout_duo("columns", c, sp1, sp2, opt, fault)

_layout_duo_stack(c, sp1, sp2, opt, fault) ==
    layout_duo("stack", c, sp1, sp2, opt, fault)

UnsupportedTalks == Raised("Exception", "Unsupported number of talks")

\* A plausible slip: the two-talk branch tests for "stack" and draws columns
\* otherwise.
speaker_section_stack_tested(meetup, speakers, opt, c, fault) ==
    IF is_to_be_announced(meetup) THEN _layout_tba(c, fault)
    ELSE IF has_single_talk(meetup)
    THEN LET f == _find_speaker(speakers, meetup.talks[1].speaker_id)
         IN  IF f.kind = "raised" THEN SectionRaised(c, "lookup", f.exc, f.exc)
             ELSE _layout_single(c, f.sp, opt, fault)
    ELSE IF has_two_talks(meetup)
    THEN LET f1 == _find_speaker(speakers, meetup.talks[1].speaker_id)
             f2 == _find_speaker(speakers, meetup.talks[2].speaker_id)
         IN  IF f1.kind = "raised" THEN SectionRaised(c, "lookup", f1.exc, f1.exc)
             ELSE IF f2.kind = "raised"
             THEN SectionRaised(c, "lookup", f2.exc, f2.exc)
             ELSE IF opt.duo_mode = "stack"
             THEN _layout_duo_stack(c, f1.sp, f2.sp, opt, fault)
             ELSE _layout_duo_columns(c, f1.sp, f2.sp, opt, fault)
    ELSE SectionRaised(c, "talks", UnsupportedTalks, UnsupportedTalks)

\* A plausible slip: a meetup with more talks is drawn with its first two.
speaker_section_truncating(meetup, speakers, opt, c, fault) ==
    IF is_to_be_announced(meetup) THEN _layout_tba(c, fault)
    ELSE IF has_single_talk(meetup)
    THEN LET f == _find_speaker(speakers, meetup.talks[1].speaker_id)
         IN  IF f.kind = "raised" THEN SectionRaised(c, "lookup", f.exc, f.exc)
             ELSE _layout_single(c, f.sp, opt, fault)
    ELSE LET f1 == _find_speaker(speakers, meetup.talks[1].speaker_id)
             f2 == _find_speaker(speakers, meetup.talks[2].speaker_id)
         IN  IF f1.kind = "raised" THEN SectionRaised(c, "lookup", f1.exc, f1.exc)
             ELSE IF f2.kind = "raised"
             THEN SectionRaised(c, "lookup", f2.exc, f2.exc)
             ELSE IF opt.duo_mode = "columns"
             THEN _layout_duo_columns(c, f1.sp, f2.sp, opt, fault)
             ELSE _layout_duo_stack(c, f1.sp, f2.sp, opt, fault)

\* The speaker section of generate_featured_image.
speaker_section(meetup, speakers, opt, c, fault) ==
    IF is_to_be_announced(meetup) THEN _layout_tba(c, fault)
    ELSE IF has_single_talk(meetup)
    THEN LET f == _find_speaker(speakers, meetup.talks[1].speaker_id)
         IN  IF f.kind = "raised" THEN SectionRaised(c, "lookup", f.exc, f.exc)
             ELSE _layout_single(c, f.sp, opt, fault)
    ELSE IF has_two_talks(meetup)
    THEN LET f1 == _find_speaker(speakers, meetup.talks[1].speaker_id)
             f2 == _find_speaker(speakers, meetup.talks[2].speaker_id)
         IN  IF f1.kind = "raised" THEN SectionRaised(c, "lookup", f1.exc, f1.exc)
             ELSE IF f2.kind = "raised"
             THEN SectionRaised(c, "lookup", f2.exc, f2.exc)
             ELSE IF opt.duo_mode = "columns"
             THEN _layout_duo_columns(c, f1.sp, f2.sp, opt, fault)
             ELSE _layout_duo_stack(c, f1.sp, f2.sp, opt, fault)
    ELSE SectionRaised(c, "talks", UnsupportedTalks, UnsupportedTalks)

\* The image composed by a call: canvas, header, ribbon and speaker section.
Render(meetup, language, aspect, layout, avatars, drawn) ==
    [op |-> "render", mode |-> "RGBA", w |-> _canvas(aspect)[1],
     h |-> _canvas(aspect)[2], header |-> meetup.meetup_id,
     ribbon |-> (language = "en"), layout |-> layout, avatars |-> avatars,
     drawn |-> drawn]

\* A plausible slip: an existing output file is left as it is.
save_kept_existing(f, fault) ==
    IF fault = "mkdir" /\ ~f.dir
    THEN [kind |-> "raised", exc |-> EnvError("mkdir"), stage |-> "mkdir",
          dir |-> f.dir, save |-> "none"]
    ELSE IF f.file # Absent
    THEN [kind |-> "ok", exc |-> NoCause, stage |-> "none", dir |-> TRUE,
          save |-> "none"]
    ELSE IF fault = "open"
    THEN [kind |-> "raised", exc |-> EnvError("open"), stage |-> "open",
          dir |-> TRUE, save |-> "none"]
    ELSE IF fault = "write"
    THEN [kind |-> "raised", exc |-> EnvError("write"), stage |-> "write",
          dir |-> TRUE, save |-> "broken"]
    ELSE [kind |-> "ok", exc |-> NoCause, stage |-> "none", dir |-> TRUE,
          save |-> "complete"]

\* output_path.parent.mkdir(parents=True, exist_ok=True)
\* img.save(output_path, "PNG"): open the file for writing, then write it.
save(f, fault) ==
    IF fault = "mkdir" /\ ~f.dir
    THEN [kind |-> "raised", exc |-> EnvError("mkdir"), stage |-> "mkdir",
          dir |-> f.dir, save |-> "none"]
    ELSE IF fault = "open"
    THEN [kind |-> "raised", exc |-> EnvError("open"), stage |-> "open",
          dir |-> TRUE, save |-> "none"]
    ELSE IF fault = "write"
    THEN [kind |-> "raised", exc |-> EnvError("write"), stage |-> "write",
          dir |-> TRUE, save |-> "broken"]
    ELSE [kind |-> "ok", exc |-> NoCause, stage |-> "none", dir |-> TRUE,
          save |-> "complete"]

\* What is at output_path after the save step.
SavedFiles(old, how, render) ==
    IF how = "complete" THEN {PngFile(render)}
    ELSE IF how = "broken"
    THEN (IF old = Absent THEN {Absent, PartialFile} ELSE {PartialFile})
    ELSE {old}

\* A plausible slip: the wrapper is raised without "from e".
wrap_failure_unchained(meetup, e) ==
    [ImageGenerationError("Failed to generate image for meetup",
                          meetup.meetup_id, e) EXCEPT !.cause = NoCause]

\* except Exception as e: raise ImageGenerationError(...) from e
wrap_failure(meetup, e) ==
    ImageGenerationError("Failed to generate image for meetup", meetup.meetup_id, e)

GenRaised(meetup, c, dir, how, stage, e, root) ==
    [kind |-> "raised", exc |-> wrap_failure(meetup, e), root |-> root,
     stage |-> stage, cache |-> c, dir |-> dir, save |-> how,
     render |-> NoImage, layout |-> "none", avatars |-> << >>]

GenReturned(c, render) ==
    [kind |-> "returned", exc |-> NoCause, root |-> NoCause, stage |-> "none",
     cache |-> c, dir |-> TRUE, save |-> "complete", render |-> render,
     layout |-> render.layout, avatars |-> render.avatars]

\* generate_featured_image(meetup, speakers, output_path, language,
\* aspect_ratio, options) of a generator whose asset files are self, with the
\* output location f and the avatar cache c. The outcome also records the two
\* option mappings as the call leaves them.
generate_featured_image(self, meetup, speakers, f, c, language, aspect, options, fault) ==
    LET lang == IF language = NoLanguage THEN MeetupLanguage(meetup) ELSE language
        saved(s, w) ==
            IF w.kind = "raised"
            THEN GenRaised(meetup, s.cache, w.dir, w.save, w.stage, w.exc, w.exc)
            ELSE [GenReturned(s.cache,
                              Render(meetup, lang, aspect, s.layout, s.avatars,
                                     assets_drawn(self, lang, s.layout)))
                  EXCEPT !.save = w.save]
        composed(s) ==
            IF s.kind = "raised"
            THEN GenRaised(meetup, s.cache, f.dir, "none", s.stage, s.exc, s.root)
            ELSE IF fault = "footer"
            THEN GenRaised(meetup, s.cache, f.dir, "none", "footer",
                           EnvError("footer"), EnvError("footer"))
            ELSE saved(s, save(f, fault))
        called(m) ==
            m @@ (IF fault = "header"
                  THEN GenRaised(meetup, c, f.dir, "none", "header",
                                 EnvError("header"), EnvError("header"))
                  ELSE composed(speaker_section(meetup, speakers, m.opt, c, fault)))
    IN  called(merge_options(_aspect_preset(aspect), options))

OutputPath == "out/featured.png"

TalkLists == UNION {[1..n -> {Talk(i) : i \in SpeakerIds}] : n \in 0..MaxTalks}

Meetups == {Meetup(i, t) : i \in MeetupIds, t \in TalkLists}

\* The avatar bytes of a speaker: ann's photo shows one face, bob's none.
GenPhoto(id) ==
    ImageBytes(SourceImage("RGB", MaxImgDim, PhotoH,
                           IF id = "ann" THEN <<_Box(0, 0, 1, 1)>> ELSE << >>))

SpeakerChoices(id) ==
    {<< >>, <<Speaker(id, GenPhoto(id))>>, <<Speaker(id, GarbageBytes)>>}

SpeakerLists == {a \o b : a \in SpeakerChoices("ann"), b \in SpeakerChoices("bob")}

Aspects == {"16x9", "4x5", "1x1", "21x9"}

GenFaults == {"none", "header", "locator", "layout", "footer", "mkdir", "open", "write"}

\* The cache after an earlier request for the speaker's avatar.
Warmed(c, id) == _avatar(c, Speaker(id, GenPhoto(id)), <<330, 330>>, "none").cache

GenCaches == {EmptyCache, Warmed(EmptyCache, "ann"), Warmed(EmptyCache, "bob"),
              Warmed(Warmed(EmptyCache, "ann"), "bob")}

\* The output file left by an earlier call.
OldFile ==
    PngFile(Render(Meetup("58", << >>), "pl", "16x9", "tba", << >>,
                   assets_drawn(AssetNames, "pl", "tba")))

GenInit ==
    /\ cache \in GenCaches
    /\ avLast = NotRun
    /\ avPrev = NotRun
    /\ fs \in {[dir |-> FALSE, file |-> Absent], [dir |-> TRUE, file |-> Absent],
               [dir |-> TRUE, file |-> OldFile]}
    /\ gLast = NotRun
    /\ gPrev = NotRun
    /\ assets = AssetNames

\* One call of generate_featured_image, start to finish.
GenerateFeaturedImage ==
    /\ gLast = NotRun
    /\ \E meetup \in Meetups, speakers \in SpeakerLists,
          language \in {NoLanguage, "en"}, aspect \in Aspects, fault \in GenFaults :
        \E r \in {generate_featured_image(assets, meetup, speakers, fs, cache,
                                          language, aspect, NoOptions, fault)} :
            /\ cache' = r.cache
            /\ \E file \in SavedFiles(fs.file, r.save, r.render) :
                    fs' = [dir |-> r.dir, file |-> file]
            /\ gLast' = [meetup |-> meetup, speakers |-> speakers,
                         language |-> language, aspect |-> aspect, fault |-> fault,
                         before |-> [fs |-> fs, cache |-> cache],
                         kind |-> r.kind, exc |-> r.exc, root |-> r.root,
                         stage |-> r.stage, layout |-> r.layout,
                         avatars |-> r.avatars, render |-> r.render,
                         ret |-> IF r.kind = "returned" THEN OutputPath ELSE "none"]
    /\ UNCHANGED <<faceVars, wrapVars, autoVars, avLast, avPrev, gPrev, assets,
                 seqVars>>

GenNext == GenerateFeaturedImage

\* The arguments of one call.
CallInput(meetup, speakers, language, aspect, options, fault) ==
    [meetup |-> meetup, speakers |-> speakers, language |-> language,
     aspect |-> aspect, options |-> options, fault |-> fault]

\* One call of generate_featured_image with arguments among inputs, made by
\* any caller after any earlier calls on the same generator, cache directory
\* and output location.
Call(inputs) ==
    /\ \E i \in inputs :
        \E r \in {generate_featured_image(assets, i.meetup, i.speakers, fs, cache,
                                          i.language, i.aspect, i.options,
                                          i.fault)} :
            /\ cache' = r.cache
            /\ \E file \in SavedFiles(fs.file, r.save, r.render) :
                    fs' = [dir |-> r.dir, file |-> file]
            /\ gLast' = [meetup |-> i.meetup, speakers |-> i.speakers,
                         language |-> i.language, aspect |-> i.aspect,
                         fault |-> i.fault, options |-> i.options,
                         before |-> [fs |-> fs, cache |-> cache],
                         kind |-> r.kind, exc |-> r.exc, root |-> r.root,
                         stage |-> r.stage, layout |-> r.layout,
                         avatars |-> r.avatars, render |-> r.render,
                         opt |-> r.opt, options_after |-> r.options,
                         ret |-> IF r.kind = "returned" THEN OutputPath ELSE "none"]
            /\ gPrev' = IF gLast = NotRun THEN NotRun
                        ELSE [meetup |-> gLast.meetup, speakers |-> gLast.speakers,
                              language |-> gLast.language, aspect |-> gLast.aspect,
                              fault |-> gLast.fault, options |-> gLast.options,
                              cache |-> gLast.before.cache, kind |-> gLast.kind,
                              exc |-> gLast.exc, render |-> gLast.render]
    /\ UNCHANGED <<faceVars, wrapVars, autoVars, avLast, avPrev, assets, seqVars>>

\* A second photo of ann, in which the locator finds no face.
OtherPhoto == ImageBytes(SourceImage("RGBA", MaxImgDim, PhotoH, << >>))

\* Calls that differ in the event, its talks, the avatar bytes its speakers
\* carry and the aspect tag.
EventInputs ==
    {CallInput(Meetup(id, talks), <<Speaker("ann", a), Speaker("bob", b)>>,
               NoLanguage, aspect, NoOptions, "none") :
        id \in MeetupIds, talks \in {<<Talk("ann")>>, <<Talk("ann"), Talk("bob")>>},
        a \in {GenPhoto("ann"), OtherPhoto, GarbageBytes},
        b \in {GenPhoto("bob"), GarbageBytes},
        aspect \in {"16x9", "4x5"}}

\* Calls that differ in talk count and language.
AssetInputs ==
    {CallInput(Meetup("58", talks),
               <<Speaker("ann", GenPhoto("ann")), Speaker("bob", GenPhoto("bob"))>>,
               language, "16x9", NoOptions, "none") :
        talks \in {<< >>, <<Talk("ann")>>, <<Talk("ann"), Talk("bob")>>},
        language \in {NoLanguage, "en"}}

\* Calls that differ in talk count, language, aspect tag and options.
PresetInputs ==
    {CallInput(Meetup("58", talks),
               <<Speaker("ann", GenPhoto("ann")), Speaker("bob", GenPhoto("bob"))>>,
               language, aspect, options, "none") :
        talks \in {<< >>, <<Talk("ann")>>, <<Talk("ann"), Talk("bob")>>},
        language \in {NoLanguage, "en"}, aspect \in Aspects,
        options \in {NoOptions, Options({"duo_mode"}, "columns", 0, 0),
                     Options({"duo_mode", "duo_avatar"}, "stack", 0, 300)}}

\* Calls that differ in talk count, aspect tag and the duo mode asked for.
LayoutInputs ==
    {CallInput(Meetup("58", talks),
               <<Speaker("ann", GenPhoto("ann")), Speaker("bob", GenPhoto("bob"))>>,
               NoLanguage, aspect, options, "none") :
        talks \in {<< >>, <<Talk("ann")>>, <<Talk("ann"), Talk("bob")>>,
                   <<Talk("ann"), Talk("bob"), Talk("ann")>>},
        aspect \in {"16x9", "4x5", "1x1"},
        options \in {NoOptions, Options({"duo_mode"}, "columns", 0, 0),
                     Options({"duo_mode"}, "rows", 0, 0),
                     Options({"duo_mode"}, "stack", 0, 0)}}


(***************************************************************************)
(* Batch entry points: generate_images (main.py) and                        *)
(* HugoMeetupGenerator.generate_all_meetups (hugo_generator.py)             *)
(***************************************************************************)
\* images_variants of create_featured_image: language and aspect, in order.
images_variants ==
    <<<<"pl", "16x9">>, <<"en", "16x9">>, <<"pl", "4x5">>, <<"en", "4x5">>,
      <<"pl", "1x1">>, <<"en", "1x1">>>>

\* The files of a meetup directory: the six variants in the order of
\* images_variants, and featured.png.
EmptyDir == [variants |-> [n \in 1..Len(images_variants) |-> Absent],
             featured |-> Absent]

\* What the environment makes fail in a call of create_featured_image: the
\* stage what of the generation of variant at, or the opening or the writing
\* of featured.png by the copy (at is one past the last variant).
NoFault == [at |-> 0, what |-> "none"]

\* The loop of create_featured_image from variant n on, with the cache c, the
\* directory d and the images written so far; then the copy to featured.png.
\* When it raises, at and save tell which file the failing step was writing
\* and how far it got.
RECURSIVE generate_variants(_, _, _, _, _, _, _, _)
generate_variants(self, meetup, speakers, d, c, n, written, fault) ==
    LET src == IF MeetupLanguage(meetup) = "pl" THEN 1 ELSE 2
        step(r) ==
            IF r.kind = "raised"
            THEN [kind |-> "raised", exc |-> r.exc, cache |-> r.cache,
                  renders |-> written, featured |-> NoImage, dir |-> d,
                  at |-> n, save |-> r.save]
            ELSE generate_variants(self, meetup, speakers,
                                   [d EXCEPT !.variants[n] = PngFile(r.render)],
                                   r.cache, n + 1, Append(written, r.render), fault)
    IN  IF n > Len(images_variants)
        THEN IF fault.at = n
             THEN [kind |-> "raised", exc |-> EnvError("copy"), cache |-> c,
                   renders |-> written, featured |-> NoImage, dir |-> d,
                   at |-> n,
                   save |-> IF fault.what = "write" THEN "broken" ELSE "none"]
             ELSE [kind |-> "returned", exc |-> NoCause, cache |-> c,
                   renders |-> written, featured |-> written[src],
                   dir |-> [d EXCEPT !.featured = d.variants[src]],
                   at |-> 0, save |-> "complete"]
        ELSE step(generate_featured_image(self, meetup, speakers,
                                          [dir |-> TRUE, file |-> d.variants[n]], c,
                                          images_variants[n][1],
                                          images_variants[n][2], NoOptions,
                                          IF fault.at = n THEN fault.what ELSE "none"))

\* A plausible slip: featured.png is always copied from the PL variant.
create_featured_image_pl_copied(self, meetup, speakers, d, c, fault) ==
    LET copied(r) ==
            IF r.kind = "returned"
            THEN [r EXCEPT !.dir.featured = r.dir.variants[1],
                           !.featured = r.renders[1]]
            ELSE r
    IN  copied(generate_variants(self, meetup, speakers, d, c, 1, << >>, fault))

\* HugoMeetupGenerator.create_featured_image(meetup, speakers, meetup_dir)
create_featured_image(self, meetup, speakers, d, c, fault) ==
    generate_variants(self, meetup, speakers, d, c, 1, << >>, fault)

\* What one meetup of the batch comes to in each entry point: the images
\* written for it, or the exception of its generation.
generate_one(entry, self, event, c) ==
    IF entry = "generate_all_meetups"
    THEN create_featured_image(self, event.meetup, event.speakers, EmptyDir, c,
                               NoFault)
    ELSE LET one(r) == [kind |-> r.kind, exc |-> r.exc, cache |-> r.cache,
                        renders |-> IF r.kind = "returned" THEN <<r.render>>
                                    ELSE << >>,
                        featured |-> r.render]
         IN  one(generate_featured_image(self, event.meetup, event.speakers,
                                         [dir |-> FALSE, file |-> Absent], c,
                                         NoLanguage, "16x9", NoOptions, "none"))

\* An enabled meetup with the speakers get_speakers_for_meetup builds from its
\* talk rows: one talk by ann (whose row carries one of two photos, or bytes
\* that are no image), two talks by ann and bob, or three talks.
BatchEvents(id) ==
    {[meetup |-> Meetup(id, <<Talk("ann")>>), speakers |-> <<Speaker("ann", a)>>] :
        a \in {GenPhoto("ann"), OtherPhoto, GarbageBytes}}
    \cup {[meetup |-> Meetup(id, <<Talk("ann"), Talk("bob")>>),
           speakers |-> <<Speaker("ann", GenPhoto("ann")),
                          Speaker("bob", GenPhoto("bob"))>>],
          [meetup |-> Meetup(id, <<Talk("ann"), Talk("bob"), Talk("ann")>>),
           speakers |-> <<Speaker("ann", GenPhoto("ann")),
                          Speaker("bob", GenPhoto("bob"))>>]}

\* A batch command starts on an empty cache directory: get_all_enabled_meetups
\* returned one meetup, or both in either order.
BatchInit ==
    /\ cache = EmptyCache
    /\ avLast = NotRun /\ avPrev = NotRun
    /\ bEntry \in {"generate_images", "generate_all_meetups"}
    /\ bList \in {<<e>> : e \in BatchEvents("58") \cup BatchEvents("59")}
                \cup {<<e, f>> : e \in BatchEvents("58"), f \in BatchEvents("59")}
                \cup {<<f, e>> : e \in BatchEvents("58"), f \in BatchEvents("59")}
    /\ bPos = 1
    /\ bLog = << >>
    /\ bPc = "loop"
    /\ avWork = [i \in SpeakerIds |->
                    [located |-> 0, decoded |-> 0, located_ok |-> 0, decoded_ok |-> 0]]
    /\ avRequests = 0
    /\ rSpeaker = NotRun
    /\ rPc = [w \in {1, 2} |-> "idle"]
    /\ rLoc = [w \in {1, 2} |-> NotRun]
    /\ hDir = << >> /\ hLast = NotRun
    /\ pIn = NotRun /\ pOut = NotRun

\* One pass of the loop of generate_images without --meetup-id: the call is
\* inside try/except Exception, a failure is logged and the loop goes on.
GenerateImagesPass ==
    /\ bEntry = "generate_images" /\ bPc = "loop"
    /\ \E r \in {generate_one(bEntry, assets, bList[bPos], cache)} :
        /\ cache' = r.cache
        /\ bLog' = Append(bLog, [kind |-> r.kind, exc |-> r.exc,
                                 renders |-> r.renders, featured |-> r.featured])
    /\ bPos' = bPos + 1
    /\ bPc' = IF bPos = Len(bList) THEN "returned" ELSE "loop"
    /\ UNCHANGED <<faceVars, wrapVars, autoVars, genVars, avLast, avPrev, avWork,
                   avRequests, bEntry, bList, rSpeaker, rPc, rLoc, hDir, hLast,
                   pIn, pOut>>

\* One pass of the loop of generate_all_meetups: create_meetup_file calls
\* create_featured_image with no try around it, an exception leaves the loop
\* and the function.
GenerateAllMeetupsPass ==
    /\ bEntry = "generate_all_meetups" /\ bPc = "loop"
    /\ \E r \in {generate_one(bEntry, assets, bList[bPos], cache)} :
        /\ cache' = r.cache
        /\ bLog' = Append(bLog, [kind |-> r.kind, exc |-> r.exc,
                                 renders |-> r.renders, featured |-> r.featured])
        /\ bPos' = IF r.kind = "raised" THEN bPos ELSE bPos + 1
        /\ bPc' = IF r.kind = "raised" THEN "raised"
                  ELSE IF bPos = Len(bList) THEN "returned" ELSE "loop"
    /\ UNCHANGED <<faceVars, wrapVars, autoVars, genVars, avLast, avPrev, avWork,
                   avRequests, bEntry, bList, rSpeaker, rPc, rLoc, hDir, hLast,
                   pIn, pOut>>

(***************************************************************************)
(* HugoMeetupGenerator.create_featured_image on a directory that persists   *)
(***************************************************************************)
\* Most calls of create_featured_image followed.
MaxHugoCalls == 3

\* The faults explored: the first variant fails before anything is written,
\* the third while its file is written; the copy fails opening or writing
\* featured.png.
HugoFaults ==
    {NoFault, [at |-> 1, what |-> "header"], [at |-> 3, what |-> "write"]}
    \cup {[at |-> Len(images_variants) + 1, what |-> w] : w \in {"open", "write"}}

\* One call of create_featured_image for a meetup as the sheet describes it
\* at the time, on the meetup's directory as earlier calls left it.
CreateFeaturedImage ==
    /\ hLast # NotRun => hLast.calls < MaxHugoCalls
    /\ \E id \in MeetupIds, fault \in HugoFaults :
      \E e \in BatchEvents(id) :
        \E d \in {IF id \in DOMAIN hDir THEN hDir[id] ELSE EmptyDir} :
          \E r \in {create_featured_image(assets, e.meetup, e.speakers, d, cache,
                                          fault)} :
            /\ cache' = r.cache
            /\ IF r.kind = "returned"
               THEN hDir' = (id :> r.dir) @@ hDir
               ELSE IF r.at > Len(images_variants)
               THEN \E file \in SavedFiles(r.dir.featured, r.save, NoImage) :
                        hDir' = (id :> [r.dir EXCEPT !.featured = file]) @@ hDir
               ELSE \E file \in SavedFiles(r.dir.variants[r.at], r.save, NoImage) :
                        hDir' = (id :> [r.dir EXCEPT !.variants[r.at] = file]) @@ hDir
            /\ hLast' = [meetup |-> e.meetup, fault |-> fault, kind |-> r.kind,
                         exc |-> r.exc, featured_before |-> d.featured,
                         calls |-> IF hLast = NotRun THEN 1 ELSE hLast.calls + 1]
            /\ UNCHANGED <<faceVars, wrapVars, autoVars, avLast, avPrev, genVars,
                           avWork, avRequests, bEntry, bList, bPos, bLog, bPc,
                           rSpeaker, rPc, rLoc, pIn, pOut>>

(***************************************************************************)
(* Composition steps of generate_featured_image (image_generator.py)        *)
(* Texts are sequences of one-character strings.                            *)
(***************************************************************************)
\* Dates run over day 0 (a Monday) .. MaxDay.
MaxDay == 6

\* _resolve_date_parts(meetup, lang) -> (day_name, date_label, time_label).
\* The first of the attributes starts_at, start, datetime, date that holds a
\* datetime or a date decides; a date becomes that day at 18:00. With none,
\* meetup.formatted_date(lang) is split at its last blank (left, right: a
\* right part that is no time of day is empty here and stays in the left).
\* The weekday of day d is d mod 7, the date label stands for its day.
_resolve_date_parts(meetup, lang) ==
    LET dni_pl == <<"PONIEDZIALEK", "WTOREK", "SRODA", "CZWARTEK", "PIATEK",
                    "SOBOTA", "NIEDZIELA">>
        dni_en == <<"MONDAY", "TUESDAY", "WEDNESDAY", "THURSDAY", "FRIDAY",
                    "SATURDAY", "SUNDAY">>
        attrs  == <<meetup.starts_at, meetup.start, meetup.datetime, meetup.date>>
        found  == {i \in 1..Len(attrs) : attrs[i].type \in {"datetime", "date"}}
        val    == attrs[CHOOSE i \in found : \A j \in found : i <= j]
        dt     == IF val.type = "datetime" THEN val
                  ELSE [type |-> "datetime", day |-> val.day, hour |-> 18,
                        minute |-> 0]
        digit(k) == <<"0", "1", "2", "3", "4", "5", "6", "7", "8", "9">>[k + 1]
        d2(n)  == <<digit((n \div 10) % 10), digit(n % 10)>>
    IN  IF found # {}
        THEN [day_name |-> IF lang = "en" THEN dni_en[(dt.day % 7) + 1]
                           ELSE dni_pl[(dt.day % 7) + 1],
              date_label |-> dt.day,
              time_label |-> d2(dt.hour) \o <<":">> \o d2(dt.minute)]
        ELSE [day_name |-> "", date_label |-> meetup.formatted_date.left,
              time_label |-> meetup.formatted_date.right]

\* Measured text heights run over 0, HeightStep, ... MaxHeightSteps * HeightStep.
HeightStep == 40

MaxHeightSteps == 4

\* Measured text widths of the footer lines run over 0, WidthStep, ...
\* MaxWidthSteps * WidthStep.
WidthStep == 110

MaxWidthSteps == 4

\* A plausible slip: the separator is drawn flush with the bottom of the
\* date/time block.
date_block_flush(opt, H, date_h, time_h, has_time) ==
    LET date_y       == (H * opt.date_y_ratio) \div 100
        combo_y      == date_y + date_h + 8
        block_bottom == IF has_time THEN combo_y + time_h ELSE date_y + date_h
        sep_y        == block_bottom
    IN  [date_y |-> date_y, block_bottom |-> block_bottom, sep_y |-> sep_y,
         base_y |-> sep_y + opt.base_y_gap]

\* The date/time block, the separator and the top of the speaker section:
\* date_h and time_h are textbbox(...)[3] of the date label and of the line
\* with day name and time, has_time is "time_label or day_name".
date_block(opt, H, date_h, time_h, has_time) ==
    LET date_y       == (H * opt.date_y_ratio) \div 100
        combo_y      == date_y + date_h + 8
        block_bottom == IF has_time THEN combo_y + time_h ELSE date_y + date_h
        sep_y        == block_bottom + 12
    IN  [date_y |-> date_y, block_bottom |-> block_bottom, sep_y |-> sep_y,
         base_y |-> sep_y + opt.base_y_gap]

\* The rectangles <<left, top, right, bottom>> at which a layout pastes its
\* avatars (the badge, for _layout_tba) on a canvas of width W.
layout_boxes(layout, W, opt, base_y) ==
    LET box_w == Min2(opt.max_content_width, W - 2 * opt.safe_margin)
        box_x == (W - box_w) \div 2
        at(x, y, size) == <<x, y, x + size, y + size>>
    IN  IF layout = "tba"
        THEN <<at(W \div 2 - 300 \div 2, base_y + 10, 300)>>
        ELSE IF layout = "single"
        THEN <<at(W \div 2 - opt.single_avatar \div 2, base_y, opt.single_avatar)>>
        ELSE IF layout = "columns"
        THEN LET col_gap == 72
                 col_w   == (box_w - col_gap) \div 2
                 right_x == box_x + col_w + col_gap
             IN  <<at(box_x, base_y, opt.duo_avatar),
                   at(right_x + col_w - opt.duo_avatar, base_y, opt.duo_avatar)>>
        ELSE LET av_x  == box_x + (box_w - opt.duo_avatar) \div 2
                 off_y == base_y + opt.duo_avatar + 240
             IN  <<at(av_x, base_y, opt.duo_avatar), at(av_x, off_y, opt.duo_avatar)>>

\* The body of generate_featured_image for a meetup with the given number of
\* talks (0..2), without options: the regions in the order they are drawn,
\* and where they are placed. m holds what the environment provides: whether
\* the logo loads (it is scaled to a height of 110), the measured heights
\* title_h (the header title, drawn 20 below the safe margin), date_h, time_h,
\* and has_time, whether the event resolves to a day name or a time.
place_regions(aspect, language, talks, m) ==
    LET opt    == _aspect_preset(aspect)
        W      == _canvas(aspect)[1]
        H      == _canvas(aspect)[2]
        layout == IF talks = 0 THEN "tba"
                  ELSE IF talks = 1 THEN "single"
                  ELSE IF opt.duo_mode = "columns" THEN "columns" ELSE "stack"
        placed(b) ==
            [canvas |-> <<W, H>>, opt |-> opt,
             regions |-> <<"background", "header">>
                         \o (IF language = "en" THEN <<"ribbon">> ELSE << >>)
                         \o <<"date", "separator", "speakers", "footer", "save">>,
             header_bottom |-> opt.safe_margin
                               + Max2(IF m.logo THEN 110 ELSE 0,
                                      Max2(0, (110 - 70) \div 2) + m.title_h),
             date_y |-> b.date_y, block_bottom |-> b.block_bottom,
             sep_y |-> b.sep_y, base_y |-> b.base_y, layout |-> layout,
             avatars |-> layout_boxes(layout, W, opt, b.base_y)]
    IN  placed(date_block(opt, H, m.date_h, m.time_h, m.has_time))

\* _draw_corner_footer on a canvas W x H for measured sizes of the two
\* lines, "Meetup #<id>" (meet) and the site text: the panel and the two text
\* rectangles. m * text_margin_x is taken as the exact quotient.
_draw_corner_footer(W, H, meet_w, meet_h, site_w, site_h) ==
    LET base_block_w  == (W * 36 * 85) \div 10000
        base_block_h  == (H * 26 * 85) \div 10000
        text_gap      == 8
        text_margin_x == 74
        inner_pad     == 30
        req_w         == Max2(meet_w, site_w) + text_margin_x * 2
        req_h         == meet_h + text_gap + site_h + inner_pad * 2
        block_w       == Max2(base_block_w, req_w)
        block_h       == Max2(base_block_h, req_h)
        total_text_h  == meet_h + text_gap + site_h
        bottom_anchor_y == H - inner_pad - total_text_h
        y_top_inside  == (H - block_h) + (block_h * text_margin_x) \div block_w
                         + inner_pad
        start_y       == Max2(y_top_inside, bottom_anchor_y)
        start_x       == text_margin_x
    IN  [base_block_w |-> base_block_w, base_block_h |-> base_block_h,
         req_w |-> req_w, req_h |-> req_h, block_w |-> block_w,
         block_h |-> block_h,
         poly |-> <<<<0, H>>, <<0, H - block_h>>, <<block_w, H>>>>,
         meet |-> <<start_x, start_y, start_x + meet_w, start_y + meet_h>>,
         site |-> <<start_x, start_y + meet_h + text_gap, start_x + site_w,
                    start_y + meet_h + text_gap + site_h>>]

\* Arguments of the composition steps explored.
\* _resolve_date_parts: a Meetup of models.py (date is a datetime.date, time a
\* string, no other date attribute), an event object whose starts_at is a
\* datetime at its time of day, and one that has only formatted_date.
ComposeInputs ==
    LET none  == [type |-> "none"]
        times == {<<"1", "8", ":", "0", "0">>, <<"1", "9", ":", "0", "0">>,
                  <<"1", "7", ":", "3", "0">>}
        clock == {[hour |-> 18, minute |-> 0, text |-> <<"1", "8", ":", "0", "0">>],
                  [hour |-> 9, minute |-> 5, text |-> <<"0", "9", ":", "0", "5">>]}
    IN  {[fn |-> "_resolve_date_parts", lang |-> lang,
          meetup |-> [starts_at |-> none, start |-> none, datetime |-> none,
                      date |-> [type |-> "date", day |-> d], time |-> t,
                      formatted_date |-> [left |-> d, right |-> t]]] :
            lang \in Languages, d \in 0..MaxDay, t \in times}
        \cup
        {[fn |-> "_resolve_date_parts", lang |-> lang,
          meetup |-> [starts_at |-> [type |-> "datetime", day |-> d,
                                     hour |-> h.hour, minute |-> h.minute],
                      start |-> none, datetime |-> none,
                      date |-> [type |-> "date", day |-> d], time |-> h.text,
                      formatted_date |-> [left |-> d, right |-> << >>]]] :
            lang \in Languages, d \in 0..MaxDay, h \in clock}
        \cup
        {[fn |-> "_resolve_date_parts", lang |-> lang,
          meetup |-> [starts_at |-> none, start |-> none, datetime |-> none,
                      date |-> none, time |-> t,
                      formatted_date |-> [left |-> d, right |-> t]]] :
            lang \in Languages, d \in 0..MaxDay, t \in times}
        \cup
        {[fn |-> "place_regions", aspect |-> aspect, lang |-> lang,
          talks |-> talks,
          m |-> [logo |-> logo, has_time |-> has_time, title_h |-> th * HeightStep,
                 date_h |-> dh * HeightStep, time_h |-> mh * HeightStep]] :
            aspect \in {"16x9", "4x5", "1x1"}, lang \in Languages, talks \in 0..2,
            logo \in BOOLEAN, has_time \in BOOLEAN, th \in 0..MaxHeightSteps, dh \in 0..MaxHeightSteps,
            mh \in 0..MaxHeightSteps}
        \cup
        {[fn |-> "_draw_corner_footer", aspect |-> aspect,
          meet_w |-> mw * WidthStep, meet_h |-> mh * HeightStep,
          site_w |-> sw * WidthStep, site_h |-> sh * HeightStep] :
            aspect \in {"16x9", "4x5", "1x1"}, mw \in 0..MaxWidthSteps,
            sw \in 0..MaxWidthSteps, mh \in 0..MaxHeightSteps,
            sh \in 0..MaxHeightSteps}

\* day_name, date_label, time_label = self._resolve_date_parts(meetup, language)
ResolveDateParts ==
    /\ pIn.fn = "_resolve_date_parts" /\ pOut = NotRun
    /\ pOut' = _resolve_date_parts(pIn.meetup, pIn.lang)
    /\ UNCHANGED <<faceVars, wrapVars, autoVars, avVars, genVars, avWork, avRequests,
                   bEntry, bList, bPos, bLog, bPc, rSpeaker, rPc, rLoc, hDir,
                   hLast, pIn>>

\* The body of generate_featured_image from the canvas to the save.
PlaceRegions ==
    /\ pIn.fn = "place_regions" /\ pOut = NotRun
    /\ pOut' = place_regions(pIn.aspect, pIn.lang, pIn.talks, pIn.m)
    /\ UNCHANGED <<faceVars, wrapVars, autoVars, avVars, genVars, avWork, avRequests,
                   bEntry, bList, bPos, bLog, bPc, rSpeaker, rPc, rLoc, hDir,
                   hLast, pIn>>

\* self._draw_corner_footer(img, draw, site_text, place_text, meetup_id, opt)
DrawCornerFooter ==
    /\ pIn.fn = "_draw_corner_footer" /\ pOut = NotRun
    /\ pOut' = _draw_corner_footer(_canvas(pIn.aspect)[1], _canvas(pIn.aspect)[2],
                                   pIn.meet_w, pIn.meet_h, pIn.site_w, pIn.site_h)
    /\ UNCHANGED <<faceVars, wrapVars, autoVars, avVars, genVars, avWork, avRequests,
                   bEntry, bList, bPos, bLog, bPc, rSpeaker, rPc, rLoc, hDir,
                   hLast, pIn>>

(***************************************************************************)
(* Specifications, one per subsystem                                        *)
(***************************************************************************)
\* Nothing counted, no batch running, no worker started.
SeqIdle ==
    /\ avWork = [i \in SpeakerIds |->
                    [located |-> 0, decoded |-> 0, located_ok |-> 0, decoded_ok |-> 0]]
    /\ avRequests = 0
    /\ bEntry = "none" /\ bList = << >> /\ bPos = 1 /\ bLog = << >> /\ bPc = "idle"
    /\ rSpeaker = NotRun
    /\ rPc = [w \in {1, 2} |-> "idle"]
    /\ rLoc = [w \in {1, 2} |-> NotRun]
    /\ hDir = << >> /\ hLast = NotRun
    /\ pIn = NotRun /\ pOut = NotRun

GenIdle ==
    /\ fs = [dir |-> TRUE, file |-> Absent]
    /\ gLast = NotRun
    /\ gPrev = NotRun
    /\ assets = AssetNames

InitAutoscale == FaceIdle /\ WrapIdle /\ AutoInit /\ AvatarIdle /\ GenIdle /\ SeqIdle

SpecAutoscale == InitAutoscale /\ [][AutoNext]_vars

InitFace == FaceInit /\ WrapIdle /\ AutoIdle /\ AvatarIdle /\ GenIdle /\ SeqIdle

SpecFace == InitFace /\ [][FaceNext]_vars

InitWrap == FaceIdle /\ WrapInit /\ AutoIdle /\ AvatarIdle /\ GenIdle /\ SeqIdle

InitAvatar == FaceIdle /\ WrapIdle /\ AutoIdle /\ AvatarInit /\ GenIdle /\ SeqIdle

SpecAvatar == InitAvatar /\ [][AvatarNext]_vars

SpecStale == InitAvatar /\ [][AvatarForSpeaker]_vars

InitGen == FaceIdle /\ WrapIdle /\ AutoIdle /\ GenInit /\ SeqIdle

SpecGen == InitGen /\ [][GenNext]_vars

SpecWrap == InitWrap /\ [][WrapNext]_vars

InitPreset == FaceIdle /\ WrapIdle /\ AutoIdle /\ AvatarIdle /\ GenIdle /\ SeqIdle

InitCount == FaceIdle /\ WrapIdle /\ AutoIdle /\ AvatarIdle /\ GenIdle /\ SeqIdle

SpecCount == InitCount /\ [][AvatarCounted]_vars

InitRace == FaceIdle /\ WrapIdle /\ AutoIdle /\ GenIdle /\ RaceInit

SpecRace == InitRace /\ [][\E w \in {1, 2} : AvatarStep(w)]_vars

InitBatch == FaceIdle /\ WrapIdle /\ AutoIdle /\ GenIdle /\ BatchInit

SpecBatch == InitBatch /\ [][GenerateImagesPass \/ GenerateAllMeetupsPass]_vars

SpecCalls == InitPreset /\ [][Call(EventInputs)]_vars

\* A generator constructed on an assets directory that holds any of the files.
InitAssets ==
    /\ FaceIdle /\ WrapIdle /\ AutoIdle /\ AvatarIdle /\ SeqIdle
    /\ fs = [dir |-> TRUE, file |-> Absent]
    /\ gLast = NotRun
    /\ gPrev = NotRun
    /\ assets \in SUBSET AssetNames

SpecAssets == InitAssets /\ [][Call(AssetInputs)]_vars

SpecPreset == InitPreset /\ [][Call(PresetInputs)]_vars

SpecLayout == InitPreset /\ [][Call(LayoutInputs)]_vars

SpecHugo == InitPreset /\ [][CreateFeaturedImage]_vars

\* One composition step on its arguments.
InitCompose ==
    /\ FaceIdle /\ WrapIdle /\ AutoIdle /\ AvatarIdle /\ GenIdle
    /\ avWork = [i \in SpeakerIds |->
                    [located |-> 0, decoded |-> 0, located_ok |-> 0, decoded_ok |-> 0]]
    /\ avRequests = 0
    /\ bEntry = "none" /\ bList = << >> /\ bPos = 1 /\ bLog = << >> /\ bPc = "idle"
    /\ rSpeaker = NotRun
    /\ rPc = [w \in {1, 2} |-> "idle"]
    /\ rLoc = [w \in {1, 2} |-> NotRun]
    /\ hDir = << >> /\ hLast = NotRun
    /\ pIn \in ComposeInputs
    /\ pOut = NotRun

SpecCompose ==
    InitCompose /\ [][ResolveDateParts \/ PlaceRegions \/ DrawCornerFooter]_vars

(***************************************************************************)
(* Face locator: properties                                                 *)
(***************************************************************************)
CropWidth(c) == c[3] - c[1]

CropHeight(c) == c[4] - c[2]

\* C1: every crop box computed by _compute_square_crop, called directly on any
\* box with positive width and height or through detect_and_center_square,
\* has equal width and height, and that side is at most the image width and
\* at most the image height.
C1_Squareness ==
    fOut.kind \in {"crop", "cropped"} =>
        /\ CropWidth(fOut.crop) = CropHeight(fOut.crop)
        /\ CropWidth(fOut.crop) <= fImg.w
        /\ CropHeight(fOut.crop) <= fImg.h

\* A direct call whose crop was clamped by the image bounds on one axis only.
C1_Witness ==
    /\ fOut.kind = "crop"
    /\ fImg.w # fImg.h
    /\ CropWidth(fOut.crop) = Min2(fImg.w, fImg.h)
    /\ CropWidth(fOut.crop) < 2 * Max2(fBox.w, fBox.h)

RejectedFaces(faces) ==
    \/ Len(faces) = 0
    \/ Len(faces) > 1
    \/ Len(faces) = 1 /\ (faces[1].w <= 0 \/ faces[1].h <= 0)

\* C2: detect_and_center_square raises FaceDetectionError exactly when the
\* backend returns no face, several faces, or one face with non-positive
\* width or height; otherwise it returns a crop; the backend is queried once.
C2_DetectionErrors ==
    /\ fCalls <= 1
    /\ fCalls = 1 =>
        /\ fOut.kind = "FaceDetectionError" <=> RejectedFaces(fFaces)
        /\ ~RejectedFaces(fFaces) => fOut.kind = "cropped"

\* Several faces were reported, the first of them a usable box: rejected.
C2_Witness ==
    /\ fCalls = 1
    /\ Len(fFaces) > 1
    /\ fFaces[1].w > 0 /\ fFaces[1].h > 0
    /\ fOut = FaceDetectionError("More than one face detected")

(***************************************************************************)
(* Text metrics: properties                                                 *)
(***************************************************************************)
SingleWord(line) == line # << >> /\ \A i \in 1..Len(line) : line[i] # 0

\* C3: every line returned by _wrap_unbounded is non-empty and measures at
\* most max_w, unless it consists of a single word that is itself wider than
\* max_w (a line of its own).
C3_WrapCorrect ==
    wOut.kind = "lines" =>
        \A i \in 1..Len(wOut.lines) :
            LET line == wOut.lines[i]
            IN  /\ line # << >>
                /\ \/ TextWidth(line) <= wMaxW
                   \/ SingleWord(line) /\ TextWidth(line) > wMaxW

\* A text wrapped into a line of two words and a line holding one word that
\* is wider than max_w.
C3_Witness ==
    /\ wOut.kind = "lines"
    /\ \E i, j \in 1..Len(wOut.lines) :
        /\ ~SingleWord(wOut.lines[i])
        /\ SingleWord(wOut.lines[j]) /\ TextWidth(wOut.lines[j]) > wMaxW

Fits(font) == TextWidthAt(aUnits, font) <= aMaxWidth

\* The sizes the loop measures: start, start - 2, ... down to the floor.
TriedSizes ==
    {sz \in MinFontSize..aStart : (aStart - sz) % SizeStep = 0}

NoTriedSizeFits == \A sz \in TriedSizes : ~Fits(_load_font(aFontOk, sz))

\* The loop of _autoscale_font makes at most one pass per size tried, and
\* while it has not returned it can take a step.
AutoscaleTerminates ==
    /\ aIter <= Cardinality(TriedSizes)
    /\ aPc = "loop" => ENABLED AutoNext

\* C4 as stated: the font returned fits max_width, or else it is a font of
\* size 40 and no size tried fits; the loop terminates.
C4_AsStated ==
    /\ aPc = "done" =>
        \/ Fits(aOut)
        \/ aOut.size = MinFontSize /\ NoTriedSizeFits
    /\ AutoscaleTerminates

\* C4 amended: the font returned fits max_width, or else it is the font
\* _load_font gives for size 40 (a font of size 40 when the font file loads,
\* the built-in default font when it does not) and no size tried fits; the
\* loop terminates.
C4_Autoscale ==
    /\ aPc = "done" =>
        \/ Fits(aOut)
        \/ aOut = _load_font(aFontOk, MinFontSize) /\ NoTriedSizeFits
    /\ AutoscaleTerminates

\* Several sizes were tried, none fits, and the floor font is returned.
C4_Witness ==
    /\ aPc = "done"
    /\ aIter >= 2
    /\ ~Fits(aOut)
    /\ aOut = TrueTypeFont(MinFontSize)

(***************************************************************************)
(* Avatar cache: properties                                                 *)
(***************************************************************************)
\* The last request found a processed file for its speaker id.
AvatarHit == avLast.kind # "notrun" /\ avLast.before.proc # Absent

\* C5: a request for a speaker id whose processed file exists returns an
\* image, does not invoke the face locator and leaves the raw and the
\* processed file of that id as they were; two such requests in a row for the
\* same id and size return identical images.
C5_CacheHit ==
    AvatarHit =>
        /\ avLast.kind = "image"
        /\ avLast.located = 0
        /\ cache.raw[avLast.id] = avLast.before.raw
        /\ cache.proc[avLast.id] = avLast.before.proc
        /\ (avPrev.kind = "image" /\ avPrev.hit /\ avPrev.id = avLast.id
                /\ avPrev.size = avLast.size) => avLast.img = avPrev.img

\* Two requests in a row served from the processed file of one speaker, the
\* file holding a crop that had to be resized.
C5_Witness ==
    /\ AvatarHit
    /\ avPrev.kind = "image" /\ avPrev.hit
    /\ avPrev.id = avLast.id /\ avPrev.size = avLast.size
    /\ avLast.img = avPrev.img
    /\ avLast.img.op = "resize" /\ avLast.img.of.op = "crop"
    /\ avLast.located = 0

\* The face locator raised FaceDetectionError in the last request.
LocatorRejected ==
    /\ avLast.kind # "notrun"
    /\ avLast.located = 1
    /\ avLast.original # NoImage
    /\ RejectedFaces(avLast.original.faces)

\* C6: when the face locator raises FaceDetectionError in a request that found
\* no processed file, the request returns an image of exactly the requested
\* size and the processed file of the speaker holds the unmodified source
\* image; no request raises FaceDetectionError.
C6_Fallback ==
    /\ LocatorRejected =>
        /\ avLast.before.proc = Absent
        /\ avLast.kind = "image"
        /\ <<avLast.img.w, avLast.img.h>> = avLast.size
        /\ cache.proc[avLast.id] = PngFile(avLast.original)
    /\ avLast.kind = "raised" =>
        /\ avLast.exc.type = "ImageGenerationError"
        /\ avLast.exc.cause.type # "FaceDetectionError"

\* A photo with two faces, decoded from the speaker's bytes: the source image
\* is saved as the processed file and returned resized.
C6_Witness ==
    /\ LocatorRejected
    /\ avLast.fde
    /\ Len(avLast.original.faces) = 2
    /\ avLast.decoded = 1
    /\ avLast.kind = "image"
    /\ avLast.img = resize(avLast.original, avLast.size)
    /\ cache.proc[avLast.id] = PngFile(avLast.original)

(***************************************************************************)
(* Facade: properties                                                       *)
(***************************************************************************)
GenRan == gLast.kind # "notrun"

TalkCount == Len(gLast.meetup.talks)

HasSpeaker(id) == \E j \in 1..Len(gLast.speakers) : gLast.speakers[j].id = id

\* Every talk of the meetup names a speaker of the speakers list.
AllSpeakersPresent ==
    \A i \in 1..TalkCount : HasSpeaker(gLast.meetup.talks[i].speaker_id)

\* The avatar of every referenced speaker can be loaded: a cache file for the
\* speaker id exists or the speaker's avatar bytes are those of an image.
AvatarsLoadable ==
    \A i \in 1..TalkCount :
        LET id == gLast.meetup.talks[i].speaker_id
        IN  \/ gLast.before.cache.proc[id] # Absent
            \/ gLast.before.cache.raw[id] # Absent
            \/ \A j \in 1..Len(gLast.speakers) :
                   gLast.speakers[j].id = id =>
                       gLast.speakers[j].avatar.fmt = "image"

\* The call returned after writing the image of the layout for n talks.
Succeeded(n) ==
    /\ gLast.kind = "returned"
    /\ fs.file = PngFile(gLast.render)
    /\ Len(gLast.avatars) = n
    /\ gLast.layout \in (CASE n = 0 -> {"tba"}
                           [] n = 1 -> {"single"}
                           [] OTHER -> {"columns", "stack"})

\* The call raised for the talk count and drew no speaker section.
RejectedTalkCount ==
    /\ gLast.kind = "raised"
    /\ gLast.exc.type = "ImageGenerationError"
    /\ gLast.exc.cause = UnsupportedTalks
    /\ gLast.layout = "none" /\ gLast.avatars = << >>
    /\ fs.file = gLast.before.fs.file
    /\ cache = gLast.before.cache

MissingSpeaker ==
    /\ GenRan
    /\ TalkCount \in {1, 2}
    /\ ~AllSpeakersPresent

WrapsMeetup ==
    /\ gLast.exc.type = "ImageGenerationError"
    /\ gLast.exc.msg[1] = "Failed to generate image for meetup"
    /\ gLast.exc.msg[2] = gLast.meetup.meetup_id

\* C9 as stated: a failing call raises one ImageGenerationError that names
\* the meetup and whose chained cause is the exception first raised by the
\* failing stage.
C9_AsStated ==
    (GenRan /\ gLast.kind = "raised") =>
        /\ WrapsMeetup
        /\ gLast.root # NoCause
        /\ gLast.exc.cause = gLast.root

\* C9 amended: a failing call raises one ImageGenerationError that names the
\* meetup; its chained cause is the exception first raised by the failing
\* stage, except for a failed avatar load, where the chained cause is the
\* avatar cache's own ImageGenerationError whose chained cause is that
\* exception.
C9_Chained ==
    (GenRan /\ gLast.kind = "raised") =>
        /\ WrapsMeetup
        /\ gLast.root # NoCause
        /\ gLast.root.type # "ImageGenerationError"
        /\ gLast.stage # "avatar" => gLast.exc.cause = gLast.root
        /\ gLast.stage = "avatar" =>
            /\ gLast.exc.cause.type = "ImageGenerationError"
            /\ gLast.exc.cause.msg[1] = "Failed to load avatar for"
            /\ gLast.exc.cause.cause = gLast.root

\* The avatar bytes of a present speaker are no image and nothing is cached.
C9_Witness ==
    /\ GenRan /\ gLast.kind = "raised"
    /\ gLast.stage = "avatar"
    /\ gLast.root = UnidentifiedImageError
    /\ gLast.exc.cause.type = "ImageGenerationError"
    /\ gLast.exc.cause.cause = UnidentifiedImageError
    /\ gLast.exc.msg[2] = gLast.meetup.meetup_id

\* The call returned output_path; the parent directory exists and the file
\* holds the complete image of this call.
ReturnedWritten ==
    /\ gLast.ret = OutputPath
    /\ fs.dir
    /\ fs.file = PngFile(gLast.render)
    /\ gLast.render # NoImage

\* C10 as stated: a call either returns output_path with one complete PNG
\* written, or raises ImageGenerationError with the output file exactly as
\* it was before the call.
C10_AsStated ==
    GenRan =>
        /\ gLast.kind \in {"returned", "raised"}
        /\ gLast.kind = "returned" => ReturnedWritten
        /\ gLast.kind = "raised" =>
            /\ gLast.exc.type = "ImageGenerationError"
            /\ fs.file = gLast.before.fs.file

\* C10 amended: as stated, except that a call that fails while img.save is
\* writing leaves a partial file, or no file where there was none before.
C10_Atomic ==
    GenRan =>
        /\ gLast.kind \in {"returned", "raised"}
        /\ gLast.kind = "returned" => ReturnedWritten
        /\ gLast.kind = "raised" =>
            /\ gLast.exc.type = "ImageGenerationError"
            /\ gLast.stage # "write" => fs.file = gLast.before.fs.file
            /\ gLast.stage = "write" =>
                \/ fs.file = PartialFile
                \/ fs.file = Absent /\ gLast.before.fs.file = Absent

\* The file of an earlier call is replaced by the image of this call.
C10_Witness ==
    /\ GenRan /\ gLast.kind = "returned"
    /\ gLast.before.fs.file = OldFile
    /\ ReturnedWritten
    /\ fs.file # OldFile

(***************************************************************************)
(* Facade: canvas, presets and options                                      *)
(***************************************************************************)
\* The canvas size the documentation gives for an aspect tag.
StatedCanvas(aspect) ==
    IF aspect = "16x9" THEN <<1920, 1080>>
    ELSE IF aspect = "4x5" THEN <<1080, 1350>>
    ELSE IF aspect = "1x1" THEN <<1080, 1080>>
    ELSE <<1920, 1080>>

\* The preset entries the documentation gives for an aspect tag (an unknown
\* tag has those of 16x9).
StatedPreset(aspect) ==
    IF aspect = "4x5" \/ aspect = "1x1"
    THEN [duo_mode |-> "stack", single_avatar |-> 330, duo_avatar |-> 288]
    ELSE [duo_mode |-> "columns", single_avatar |-> 330, duo_avatar |-> 280]

\* C11: the canvas of a generated image is fixed by the aspect tag alone
\* (16x9: 1920x1080, 4x5: 1080x1350, 1x1: 1080x1080, any other tag: 1920x1080
\* with the 16x9 preset and no error), whatever the language, the talk count
\* and the options; the PL and the EN image of one meetup at one aspect have
\* the same dimensions.
C11_CanvasByAspect ==
    gLast # NotRun =>
        /\ gLast.kind = "returned"
        /\ <<gLast.render.w, gLast.render.h>> = StatedCanvas(gLast.aspect)
        /\ gLast.aspect \notin {"16x9", "4x5", "1x1"} /\ gLast.options = NoOptions
                => gLast.opt = StatedPreset("16x9")
        /\ gPrev # NotRun /\ gPrev.kind = "returned" /\ gPrev.aspect = gLast.aspect
                => /\ gPrev.render.w = gLast.render.w
                   /\ gPrev.render.h = gLast.render.h

\* The PL image and then the EN image of a two-talk meetup, for an aspect
\* tag that is not in the table, the second call with options.
C11_Witness ==
    /\ gLast # NotRun /\ gPrev # NotRun
    /\ gLast.aspect = "21x9" /\ gPrev.aspect = "21x9"
    /\ gPrev.render.ribbon = FALSE /\ gLast.render.ribbon = TRUE
    /\ gLast.layout = "stack" /\ gLast.options # NoOptions
    /\ <<gLast.render.w, gLast.render.h>> = <<1920, 1080>>

\* C12: options override the preset values for that call only: the call reads
\* each key from options when options has it and from the table of its
\* aspect otherwise; a call without options reads exactly the table values of
\* its aspect whatever options earlier calls had; and the caller's options
\* mapping is the same after the call as before it.
C12_OptionsPerCall ==
    gLast # NotRun =>
        /\ \A k \in OptionNames :
                gLast.opt[k] = IF k \in gLast.options.keys THEN gLast.options[k]
                               ELSE StatedPreset(gLast.aspect)[k]
        /\ gLast.options = NoOptions => gLast.opt = StatedPreset(gLast.aspect)
        /\ gLast.options_after = gLast.options
        /\ gLast.layout \in {"columns", "stack"} =>
                /\ gLast.layout = gLast.opt.duo_mode
                /\ \A n \in 1..Len(gLast.avatars) :
                        gLast.avatars[n].w = gLast.opt.duo_avatar

\* A 16x9 call whose options asked for the stacked layout and avatars of 300,
\* followed by a 16x9 call without options, drawn in columns with avatars of
\* 280.
C12_Witness ==
    /\ gLast # NotRun /\ gPrev # NotRun
    /\ gPrev.aspect = "16x9" /\ gPrev.options.keys = {"duo_mode", "duo_avatar"}
    /\ gPrev.render.layout = "stack" /\ gPrev.render.avatars[1].w = 300
    /\ gLast.aspect = "16x9" /\ gLast.options = NoOptions
    /\ gLast.layout = "columns" /\ gLast.avatars[2].w = 280

(***************************************************************************)
(* Facade: calls in sequence                                                *)
(***************************************************************************)
\* The processed file of every speaker of the list is in the cache.
WarmFor(c, speakers) ==
    \A n \in 1..Len(speakers) : c.proc[speakers[n].id] # Absent

SameArguments(g, h) ==
    /\ g.meetup = h.meetup /\ g.speakers = h.speakers
    /\ g.language = h.language /\ g.aspect = h.aspect /\ g.options = h.options

LastCallAlone ==
    generate_featured_image(assets, gLast.meetup, gLast.speakers, gLast.before.fs,
                            gPrev.cache, gLast.language, gLast.aspect,
                            gLast.options, gLast.fault)

\* The last call came out as it would have without the call before it.
UnaffectedByPrev ==
    \A r \in {LastCallAlone} :
        /\ gLast.kind = r.kind
        /\ gLast.exc = r.exc
        /\ gLast.render = r.render

\* The last two calls were for different events, and the first of them failed.
FailedThenNext ==
    /\ gPrev # NotRun /\ gLast # NotRun
    /\ gPrev.kind = "raised"
    /\ gPrev.meetup.meetup_id # gLast.meetup.meetup_id

\* Every speaker id that both lists hold carries the same avatar bytes in both.
SameBytes(speakers1, speakers2) ==
    \A m \in 1..Len(speakers1), n \in 1..Len(speakers2) :
        speakers1[m].id = speakers2[n].id => speakers1[m].avatar = speakers2[n].avatar

NotFromFile(how) == how \in {"skipped", "circle", "drawn", "none"}

\* C19: whichever of the optional asset files are absent (background, logo,
\* pin icon, flag icon, avatar mask, TBA badge, either font file), the call
\* still returns and writes its image: an absent image is left out or replaced
\* by a drawn substitute (circle mask, drawn badge), an absent font by the
\* built-in default font.
C19_MissingAssets ==
    gLast # NotRun =>
        /\ gLast.kind = "returned"
        /\ fs.file = PngFile(gLast.render)
        /\ \A d \in {gLast.render.drawn} :
            /\ "background_path" \notin assets => d.background = "skipped"
            /\ "logo_path" \notin assets => d.logo = "skipped"
            /\ "icon_pin" \notin assets => d.pin = "skipped"
            /\ "icon_flag_gb" \notin assets => NotFromFile(d.flag)
            /\ "avatar_mask" \notin assets =>
                    d.mask = IF gLast.layout = "tba" THEN "none" ELSE "circle"
            /\ "tba_avatar" \notin assets =>
                    d.badge = IF gLast.layout = "tba" THEN "drawn" ELSE "none"
            /\ "font_bold" \notin assets => d.font_title = DefaultFont
            /\ "font_normal" \notin assets => d.font_small = DefaultFont

\* With no asset file at all, the EN image of a one-talk meetup and then the
\* image of a meetup without talks were written.
C19_Witness ==
    /\ assets = {}
    /\ gPrev # NotRun /\ gPrev.kind = "returned"
    /\ gPrev.render.drawn.flag = "skipped" /\ gPrev.render.drawn.mask = "circle"
    /\ gLast # NotRun /\ gLast.kind = "returned"
    /\ gLast.render.drawn.badge = "drawn"
    /\ gLast.render.drawn.font_title = DefaultFont
    /\ fs.file = PngFile(gLast.render)

(***************************************************************************)
(* Avatar cache: the raw original and the work done per speaker             *)
(***************************************************************************)
\* C16: once the raw original of a speaker id exists, no later avatar request
\* for that id writes it again, whatever bytes the request carries, with or
\* without the processed file, whether the request succeeds or fails: the file
\* stays as it is and the speaker's bytes are not even decoded.
C16_RawWrittenOnce ==
    [][\A id \in SpeakerIds :
            cache.raw[id] # Absent =>
                /\ cache'.raw[id] = cache.raw[id]
                /\ avLast'.id = id => avLast'.decoded = 0]_vars

\* A request that found the raw original but no processed file (an earlier
\* request failed in the detection backend) and failed there again, after a
\* request for the other speaker.
C16_Witness ==
    /\ avLast # NotRun /\ avPrev # NotRun
    /\ avPrev.id # avLast.id
    /\ avLast.before.raw # Absent /\ avLast.before.proc = Absent
    /\ avLast.kind = "raised" /\ avLast.located = 1 /\ avLast.decoded = 0
    /\ cache.raw[avLast.id] = avLast.before.raw

RaceDone == \A w \in {1, 2} : rPc[w] \in {"returned", "raised"}

\* C15: when two workers request the avatar of the same speaker id at the same
\* time on an empty cache, then under every interleaving of their
\* exists-checks, reads and file writes both requests return the image a
\* sequential run returns, and the raw and the processed file end up as a
\* sequential run leaves them.
C15_AsStated ==
    RaceDone =>
        \A r \in {_avatar(EmptyCache, rSpeaker, <<330, 330>>, "none")} :
            /\ \A w \in {1, 2} : rPc[w] = "returned" /\ rLoc[w].out = r.img
            /\ cache = r.cache

(***************************************************************************)
(* Batch entry points: properties                                           *)
(***************************************************************************)
\* The batch command has ended, by returning or with an exception.
BatchEnded == bPc \in {"returned", "raised"}

\* Generation was attempted for the n-th meetup of the batch, and what it
\* wrote is what generating that meetup alone, first on the empty cache,
\* writes.
SameAsAlone(n) ==
    /\ n <= Len(bLog)
    /\ \A r \in {generate_one(bEntry, assets, bList[n], EmptyCache)} :
            /\ bLog[n].kind = r.kind
            /\ bLog[n].renders = r.renders

\* C14: for any batch of events sharing one avatar cache directory, each
\* event's output is what it is in every other order of the batch: it does
\* not depend on which other events were generated before it, events with
\* the same speaker id included.
C14_AsStated == BatchEnded => \A n \in 1..Len(bList) : SameAsAlone(n)

\* C20: in each batch entry point generation is attempted for every enabled
\* meetup: when the command ends, every meetup of the list has had its
\* attempt, whether or not an earlier one raised ImageGenerationError.
C20_AsStated == BatchEnded => Len(bLog) = Len(bList)

(***************************************************************************)
(* Face locator: the crop against its reference                             *)
(***************************************************************************)
\* The face box lies entirely inside the image.
BoxInsideImage(box, img) ==
    /\ box.x >= 0 /\ box.y >= 0
    /\ box.x + box.w <= img.w /\ box.y + box.h <= img.h

\* The square of side s = 2 * max(w, h) around the box center, not clamped.
UnclampedSquare(box) ==
    LET c == center(box)
        s == 2 * Max2(box.w, box.h)
    IN  <<c[1] - s \div 2, c[2] - s \div 2, c[1] + s \div 2, c[2] + s \div 2>>

\* The reference crop: the unclamped square intersected with the image
\* rectangle, reduced to a square of side min(clamped width, clamped height).
ReferenceCrop(box, img) ==
    LET u    == UnclampedSquare(box)
        l    == Max2(0, u[1])
        t    == Max2(0, u[2])
        r    == Min2(img.w, u[3])
        b    == Min2(img.h, u[4])
        side == Min2(r - l, b - t)
    IN  <<l, t, l + side, t + side>>

Within(inner, outer) ==
    /\ outer[1] <= inner[1] /\ outer[2] <= inner[2]
    /\ inner[3] <= outer[3] /\ inner[4] <= outer[4]

\* C21: for a face box inside the image the crop of _compute_square_crop
\* equals the reference crop (unclamped square of side 2 * max(w, h) around
\* the box center, intersected with the image, reduced to a square); the crop
\* never extends beyond the unclamped square, and when the unclamped square
\* fits in the image the crop is exactly that square.
C21_AsStated ==
    (fOut.kind = "crop" /\ BoxInsideImage(fOut.box, fImg)) =>
        /\ fOut.crop = ReferenceCrop(fOut.box, fImg)
        /\ Within(fOut.crop, UnclampedSquare(fOut.box))
        /\ Within(UnclampedSquare(fOut.box), <<0, 0, fImg.w, fImg.h>>) =>
               fOut.crop = UnclampedSquare(fOut.box)

\* C22: for every face box with positive width and height lying entirely
\* inside the image, the crop is non-empty (side >= 1), lies within the image
\* bounds and contains the center point of the face box (edges included).
C22_AsStated ==
    (fOut.kind = "crop" /\ BoxInsideImage(fOut.box, fImg)) =>
        /\ CropWidth(fOut.crop) >= 1 /\ CropHeight(fOut.crop) >= 1
        /\ Within(fOut.crop, <<0, 0, fImg.w, fImg.h>>)
        /\ fOut.crop[1] <= center(fOut.box)[1]
        /\ center(fOut.box)[1] <= fOut.crop[3]
        /\ fOut.crop[2] <= center(fOut.box)[2]
        /\ center(fOut.box)[2] <= fOut.crop[4]

(***************************************************************************)
(* Facade: the layout drawn                                                 *)
(***************************************************************************)
\* The layout the documentation gives for a talk count and a duo mode.
StatedLayout(talks, duo_mode) ==
    IF talks = 0 THEN "tba"
    ELSE IF talks = 1 THEN "single"
    ELSE IF duo_mode = "columns" THEN "columns"
    ELSE "stack"

\* C23: each successful generate_featured_image call draws exactly one of
\* the four speaker layouts, chosen by talk count and duo mode alone: 0 talks
\* the TBA badge, 1 talk single, 2 talks with duo_mode "columns" side by side,
\* 2 talks otherwise stacked; without options 16x9 draws two talks in columns,
\* 4x5 and 1x1 draw them stacked.
C23_LayoutByTalks ==
    (gLast # NotRun /\ gLast.kind = "returned") =>
        /\ gLast.render.layout \in {"tba", "single", "columns", "stack"}
        /\ gLast.layout = gLast.render.layout
        /\ Len(gLast.meetup.talks) <= 2
        /\ gLast.render.layout =
               StatedLayout(Len(gLast.meetup.talks), gLast.opt.duo_mode)
        /\ Len(gLast.render.avatars) = Len(gLast.meetup.talks)
        /\ (gLast.options = NoOptions /\ Len(gLast.meetup.talks) = 2) =>
               /\ gLast.aspect = "16x9" => gLast.render.layout = "columns"
               /\ gLast.aspect \in {"4x5", "1x1"} => gLast.render.layout = "stack"

\* Two talks drawn stacked on a 16x9 canvas because the options carry a duo
\* mode that is neither "columns" nor "stack", after a call without options
\* for the same meetup and aspect that drew columns.
C23_Witness ==
    /\ gLast # NotRun /\ gPrev # NotRun
    /\ gPrev.aspect = "16x9" /\ gPrev.options = NoOptions
    /\ gPrev.kind = "returned" /\ gPrev.render.layout = "columns"
    /\ gLast.aspect = "16x9" /\ gLast.kind = "returned"
    /\ gLast.opt.duo_mode = "rows" /\ gLast.render.layout = "stack"
    /\ Len(gLast.meetup.talks) = 2

(***************************************************************************)
(* Avatar cache: stale entries                                              *)
(***************************************************************************)
\* C28: the avatar cache is never invalidated automatically: while the
\* processed file <id>.png exists, a request for that id returns the image of
\* that file at the requested size whatever avatar bytes the speaker object
\* carries, so any two speaker objects with that id get the same image; the
\* avatar bytes are not read and the file stays as it was.
C28_NeverInvalidated ==
    (avLast # NotRun /\ avLast.before # Absent) =>
        /\ avLast.kind = "image"
        /\ avLast.img = resize(OpenRGBA(avLast.before), avLast.size)
        /\ avLast.decoded = 0 /\ avLast.original = NoImage
        /\ cache.proc[avLast.speaker.id] = avLast.before
        /\ (avPrev # NotRun /\ avPrev.before # Absent
                /\ avPrev.speaker.id = avLast.speaker.id
                /\ avPrev.size = avLast.size) => avLast.img = avPrev.img

\* Two requests in a row served from the processed file of one id, the first
\* for a speaker object carrying a photo with a face, the second for one
\* carrying bytes that are no image, while the file holds a photo the locator
\* found no face in.
C28_Witness ==
    /\ avLast # NotRun /\ avPrev # NotRun
    /\ avLast.before # Absent /\ avPrev.before # Absent
    /\ avPrev.speaker.id = avLast.speaker.id /\ avPrev.size = avLast.size
    /\ avPrev.speaker.avatar.fmt = "image"
    /\ avPrev.speaker.avatar.img.faces # << >>
    /\ avLast.speaker.avatar = GarbageBytes
    /\ avLast.kind = "image" /\ avLast.img = avPrev.img
    /\ avLast.before.img.op = "source"

(***************************************************************************)
(* Text metrics: the size autoscale returns                                 *)
(***************************************************************************)
\* The sizes of the sequence start, start - 2, ... at which the text fits.
FittingSizes == {sz \in TriedSizes : Fits(_load_font(aFontOk, sz))}

\* The first of them: the largest.
FirstFittingSize == CHOOSE sz \in FittingSizes : \A t \in FittingSizes : t <= sz

\* C29 as stated: the size of the font returned is never greater than start
\* and never less than 40, and it is the first size of the sequence start,
\* start - 2, start - 4, ... at which the text fits.
C29_AsStated ==
    aPc = "done" =>
        /\ aOut.size <= aStart
        /\ aOut.size >= MinFontSize
        /\ FittingSizes # {}
        /\ aOut.size = FirstFittingSize

\* C29 amended: the font returned is the one _load_font gives for the first
\* size of the sequence start, start - 2, ... (not below 40) at which the text
\* fits, and the one it gives for size 40 when the text fits at none of them
\* or start is below 40; when the font file loads its size is between 40 and
\* start for start >= 40, and 40 for start < 40.
C29_Autoscale ==
    aPc = "done" =>
        /\ aOut = _load_font(aFontOk, IF FittingSizes # {} THEN FirstFittingSize
                                      ELSE MinFontSize)
        /\ (aFontOk /\ aStart >= MinFontSize) =>
                aOut.size >= MinFontSize /\ aOut.size <= aStart
        /\ (aFontOk /\ aStart < MinFontSize) => aOut.size = MinFontSize

\* The text did not fit at start and fits two sizes lower, above the floor.
C29_Witness ==
    /\ aPc = "done"
    /\ aFontOk
    /\ aIter = 3
    /\ aOut.size = aStart - 2 * SizeStep
    /\ aOut.size > MinFontSize
    /\ Fits(aOut)
    /\ ~Fits(TrueTypeFont(aStart - SizeStep))

(***************************************************************************)
(* create_featured_image: featured.png against the variant it copies        *)
(***************************************************************************)
\* The variant featured.png is copied from: the 16x9 image in the meetup's
\* own language.
OwnVariant(id) == IF MeetupLanguage(Meetup(id, << >>)) = "pl" THEN 1 ELSE 2

\* The directory of the meetup of the last call.
LastDir == hDir[hLast.meetup.meetup_id]

\* The last call returned: all six variant files exist and featured.png is
\* identical to the variant of the meetup's own language.
FeaturedOnReturn ==
    (hLast # NotRun /\ hLast.kind = "returned") =>
        /\ \A n \in 1..Len(images_variants) : LastDir.variants[n].fmt = "PNG"
        /\ LastDir.featured = LastDir.variants[OwnVariant(hLast.meetup.meetup_id)]

\* C30 as stated: create_featured_image generates the six variants and only
\* then copies the 16x9 variant of the meetup's own language to featured.png:
\* whenever it returns, all six variant files exist and featured.png is
\* identical to that variant; and after any sequence of calls, failed ones
\* included, a featured.png that exists never differs from that variant file.
C30_AsStated ==
    /\ FeaturedOnReturn
    /\ \A id \in DOMAIN hDir :
            hDir[id].featured # Absent =>
                hDir[id].featured = hDir[id].variants[OwnVariant(id)]

\* C30 amended: whenever create_featured_image returns, all six variant files
\* exist and featured.png is identical to the 16x9 variant of the meetup's own
\* language; a call that raises leaves featured.png as it found it, or as a
\* partial file when it is the copy that failed (variants generated before
\* the failure are already rewritten, so featured.png may then differ from
\* its variant).
C30_FeaturedOnReturn ==
    /\ FeaturedOnReturn
    /\ (hLast # NotRun /\ hLast.kind = "raised") =>
            \/ LastDir.featured = hLast.featured_before
            \/ /\ hLast.fault.at > Len(images_variants)
               /\ LastDir.featured = PartialFile

\* A call for meetup 58 with one talk returned; a later call for it with two
\* talks failed writing the third variant: featured-pl.png is the two-talk
\* image while featured.png is still the one-talk image.
C30_Witness ==
    /\ hLast # NotRun /\ hLast.kind = "raised" /\ hLast.fault.at = 3
    /\ hLast.meetup.meetup_id = "58"
    /\ LastDir.featured.fmt = "PNG" /\ LastDir.variants[1].fmt = "PNG"
    /\ LastDir.featured.img.layout = "single"
    /\ LastDir.variants[1].img.layout = "columns"
    /\ LastDir.variants[3] = PartialFile
    /\ LastDir.featured = hLast.featured_before

(***************************************************************************)
(* Composition steps: properties                                            *)
(***************************************************************************)
\* C27: the secondary line of the date/time block shows the day name of the
\* event's date in the requested language (Polish table unless EN) and the
\* event's own time of day: for every event, the time label returned by
\* _resolve_date_parts equals the event's time field.
C27_AsStated ==
    (pIn.fn = "_resolve_date_parts" /\ pOut # NotRun) =>
        pOut.time_label = pIn.meetup.time

\* A rectangle <<left, top, right, bottom>> lies entirely inside the canvas.
InsideCanvas(rect, canvas) ==
    /\ 0 <= rect[1] /\ 0 <= rect[2]
    /\ rect[3] <= canvas[1] /\ rect[4] <= canvas[2]

\* The regions have been placed for a meetup with one or two talks.
PlacedTalks ==
    /\ pIn # NotRun /\ pIn.fn = "place_regions" /\ pOut # NotRun
    /\ pIn.talks \in {1, 2}

\* C25 as stated: for each of the three presets, one or two talks and every
\* measured height of the date block, every speaker avatar rectangle placed
\* by the selected layout lies entirely inside the canvas.
C25_AsStated ==
    PlacedTalks =>
        \A i \in 1..Len(pOut.avatars) : InsideCanvas(pOut.avatars[i], pOut.canvas)

\* The regions have been placed.
Placed == pIn # NotRun /\ pIn.fn = "place_regions" /\ pOut # NotRun

\* The index of a region in the order of drawing (0 when it is not drawn).
RegionIndex(name) ==
    IF \E i \in 1..Len(pOut.regions) : pOut.regions[i] = name
    THEN CHOOSE i \in 1..Len(pOut.regions) : pOut.regions[i] = name
    ELSE 0

\* The regions are drawn in the stated order and the file is saved last.
RegionsInOrder ==
    /\ RegionIndex("background") = 1
    /\ RegionIndex("header") = 2
    /\ RegionIndex("header") < RegionIndex("date")
    /\ RegionIndex("date") < RegionIndex("separator")
    /\ RegionIndex("separator") < RegionIndex("speakers")
    /\ RegionIndex("speakers") < RegionIndex("footer")
    /\ RegionIndex("save") = RegionIndex("footer") + 1
    /\ RegionIndex("save") = Len(pOut.regions)

\* The separator and the speaker section follow the measured bottom of the
\* date block.
DerivedFromDateBlock ==
    /\ pOut.date_y <= pOut.block_bottom
    /\ pOut.sep_y = pOut.block_bottom + 12
    /\ pOut.base_y = pOut.sep_y + pOut.opt.base_y_gap
    /\ pOut.base_y > pOut.sep_y
    /\ \A i \in 1..Len(pOut.avatars) : pOut.avatars[i][2] >= pOut.base_y

FooterDrawn == pIn # NotRun /\ pIn.fn = "_draw_corner_footer" /\ pOut # NotRun

\* The point (x, y) is inside the panel (0,H), (0,H-block_h), (block_w,H):
\* right of the left side, above the bottom, on or below the angled edge.
InsidePanel(x, y, H) ==
    /\ 0 <= x /\ y <= H
    /\ (y - (H - pOut.block_h)) * pOut.block_w >= pOut.block_h * x

\* The rectangle <<left, top, right, bottom>> lies inside the panel.
RectInsidePanel(rect, H) ==
    /\ InsidePanel(rect[1], rect[2], H) /\ InsidePanel(rect[3], rect[2], H)
    /\ InsidePanel(rect[1], rect[4], H) /\ InsidePanel(rect[3], rect[4], H)

\* C26 as stated: for each of the three canvas sizes and every measured
\* width and height of the two footer lines, the panel is at least as large
\* as the fixed minimum and as the text requirements, and both text
\* rectangles lie entirely inside it.
C26_AsStated ==
    FooterDrawn =>
        /\ pOut.block_w >= pOut.base_block_w /\ pOut.block_h >= pOut.base_block_h
        /\ pOut.block_w >= pOut.req_w /\ pOut.block_h >= pOut.req_h
        /\ RectInsidePanel(pOut.meet, _canvas(pIn.aspect)[2])
        /\ RectInsidePanel(pOut.site, _canvas(pIn.aspect)[2])

====
